---------------------------- MODULE Spec2Model ----------------------------
(***************************************************************************)
(* A model of white_noise: the per-asset response engine                   *)
(* (whitenoise/static_file.py), the Django shim around it                  *)
(* (whitenoise/middleware.py) and the WSGI registry and dispatcher         *)
(* (whitenoise/base.py).                                                   *)
(*                                                                         *)
(* A Python str is a sequence of one-character strings, so that the        *)
(* parsers of the code (Range, dates, Accept-Encoding, URLs, file names)   *)
(* are modelled by what they do to the characters.  Python's None is the   *)
(* one-element sequence None, which is no string.  A call that may raise   *)
(* returns a record [exc, val]: exc = "none" and the value, or the name of *)
(* the exception raised.  The interpreter modelled is Python 3.            *)
(***************************************************************************)
EXTENDS Integers, Sequences, FiniteSets, TLC

\* Bounds of the model.
MaxUrlLen == 4
MaxMounts == 2
MaxSize == 10

-----------------------------------------------------------------------------
(* Python values: None, exceptions, str primitives *)

None == <<"<None>">>

Ok(v) == [exc |-> "none", val |-> v]

Raise(e) == [exc |-> e, val |-> None]

\* bool(x) of a str or None: None and '' are falsy
Truthy(s) == s /= None /\ s /= <<>>

Digits == <<"0", "1", "2", "3", "4", "5", "6", "7", "8", "9">>

IsDigit(c) == \E i \in 1..10 : Digits[i] = c

DigitVal(c) == (CHOOSE i \in 1..10 : Digits[i] = c) - 1

\* the characters str.isspace() holds for, among those a native string of a WSGI
\* environ can hold (U+0000 to U+00FF): \t \n \v \f \r, U+001C to U+001F, the space,
\* U+0085 and U+00A0
Whitespace == {" ", "\t", "\n", "\r", "\f", "", "", "", "", "",
               "", " "}

IsSpace(c) == c \in Whitespace

IsLower(c) == c \in {"a", "b", "c", "d", "e", "f", "g", "h", "i", "j", "k", "l", "m",
                     "n", "o", "p", "q", "r", "s", "t", "u", "v", "w", "x", "y", "z"}

IsUpper(c) == c \in {"A", "B", "C", "D", "E", "F", "G", "H", "I", "J", "K", "L", "M",
                     "N", "O", "P", "Q", "R", "S", "T", "U", "V", "W", "X", "Y", "Z"}

\* the characters from U+0080 to U+00FF that str.isalnum() holds for: the letters
\* and the digits of Latin-1 (U+00AA, U+00B2, U+00B3, U+00B5, U+00B9, U+00BA, U+00BC
\* to U+00BE, U+00C0 to U+00FF but U+00D7 and U+00F7)
Latin1Alnum == {"ª", "²", "³", "µ", "¹", "º", "¼", "½", "¾", "À", "Á", "Â", "Ã", "Ä",
                "Å", "Æ", "Ç", "È", "É", "Ê", "Ë", "Ì", "Í", "Î", "Ï", "Ð", "Ñ", "Ò",
                "Ó", "Ô", "Õ", "Ö", "Ø", "Ù", "Ú", "Û", "Ü", "Ý", "Þ", "ß", "à", "á",
                "â", "ã", "ä", "å", "æ", "ç", "è", "é", "ê", "ë", "ì", "í", "î", "ï",
                "ð", "ñ", "ò", "ó", "ô", "õ", "ö", "ø", "ù", "ú", "û", "ü", "ý", "þ",
                "ÿ"}

\* the regular expression class \w of a str pattern (re.UNICODE): the alphanumerics
\* of Unicode and the underscore
IsWordChar(c) == IsDigit(c) \/ IsLower(c) \/ IsUpper(c) \/ c = "_" \/ c \in Latin1Alnum

Max(a, b) == IF a >= b THEN a ELSE b

\* K applied to the value v: the value of an assignment "x = v" handed to the code K
\* that follows it
With(v, K(_)) == K(v)

\* s[i:] with a 0-based index
Drop(s, n) == IF n >= Len(s) THEN <<>> ELSE SubSeq(s, n + 1, Len(s))

\* s[:n]
Take(s, n) == IF n >= Len(s) THEN s ELSE SubSeq(s, 1, n)

startswith(s, p) == Len(p) <= Len(s) /\ Take(s, Len(p)) = p

endswith(s, p) == Len(p) <= Len(s) /\ Drop(s, Len(s) - Len(p)) = p

\* str.lstrip(cs): s from its first character that is not in cs
lstrip_set(s, cs) ==
    IF \A i \in 1..Len(s) : s[i] \in cs THEN <<>>
    ELSE Drop(s, (CHOOSE i \in 1..Len(s) :
                     s[i] \notin cs /\ \A j \in 1..(i - 1) : s[j] \in cs) - 1)

\* str.rstrip(cs): s up to its last character that is not in cs
rstrip_set(s, cs) ==
    IF \A i \in 1..Len(s) : s[i] \in cs THEN <<>>
    ELSE Take(s, CHOOSE i \in 1..Len(s) :
                     s[i] \notin cs /\ \A j \in (i + 1)..Len(s) : s[j] \in cs)

\* str.strip(): whitespace off both ends
strip(s) == rstrip_set(lstrip_set(s, Whitespace), Whitespace)

\* str.strip('/')
strip_slash(s) == rstrip_set(lstrip_set(s, {"/"}), {"/"})

\* the 1-based index of the first c in s, 0 when there is none
find_char(s, c, i) ==
    LET at == {j \in i..Len(s) : s[j] = c}
    IN  IF at = {} THEN 0 ELSE CHOOSE j \in at : \A k \in at : j <= k

\* str.partition(c): <<before, sep, after>>, sep = '' when c does not occur
partition(s, c) ==
    LET i == find_char(s, c, 1)
    IN  IF i = 0 THEN <<s, <<>>, <<>>>>
        ELSE <<Take(s, i - 1), <<c>>, Drop(s, i)>>

\* the 1-based index of the last c in s, 0 when there is none
rfind_char(s, c, i) ==
    LET at == {j \in 1..i : s[j] = c}
    IN  IF at = {} THEN 0 ELSE CHOOSE j \in at : \A k \in at : k <= j

\* str.split(c): the pieces of s between the occurrences of c.  They are the pieces
\* of the two halves of s, the last of the first half and the first of the second
\* being one piece.
RECURSIVE split(_, _)
split(s, c) ==
    IF Len(s) <= 1 THEN (IF s = <<c>> THEN << <<>>, <<>> >> ELSE <<s>>)
    ELSE With(split(Take(s, Len(s) \div 2), c), LAMBDA a :
         With(split(Drop(s, Len(s) \div 2), c), LAMBDA b :
             Take(a, Len(a) - 1) \o << a[Len(a)] \o b[1] >> \o Tail(b)))

\* c.join(parts), one half of the parts after the other
RECURSIVE join_with(_, _)
join_with(parts, c) ==
    IF parts = <<>> THEN <<>>
    ELSE IF Len(parts) = 1 THEN parts[1]
    ELSE join_with(Take(parts, Len(parts) \div 2), c) \o <<c>>
         \o join_with(Drop(parts, Len(parts) \div 2), c)

\* sys.get_int_max_str_digits(): the most digits int() converts
int_max_str_digits == 4300

\* the digits of int(): decimal digits with single underscores between digits, at most
\* int_max_str_digits of them
digits_value(s) ==
    IF /\ s /= <<>>
       /\ \A i \in 1..Len(s) : IsDigit(s[i]) \/ s[i] = "_"
       /\ IsDigit(s[1]) /\ IsDigit(s[Len(s)])
       /\ \A i \in 1..(Len(s) - 1) : ~(s[i] = "_" /\ s[i + 1] = "_")
       /\ Len(SelectSeq(s, IsDigit)) <= int_max_str_digits
    THEN Ok(SelectSeq(s, IsDigit))
    ELSE Raise("ValueError")

\* the number a list of decimal digits denotes
RECURSIVE nat_of(_)
nat_of(digits) ==
    IF digits = <<>> THEN 0
    ELSE 10 * nat_of(Take(digits, Len(digits) - 1)) + DigitVal(digits[Len(digits)])

\* a <= b of two lists of decimal digits of one length
digits_le(a, b) ==
    LET differ == {i \in 1..Len(a) : a[i] /= b[i]}
    IN  \/ differ = {}
        \/ LET i == CHOOSE j \in differ : \A k \in differ : j <= k
           IN  DigitVal(a[i]) < DigitVal(b[i])

\* the digits of 2^31 - 1, the largest magnitude held as an integer
s_max_int == <<"2", "1", "4", "7", "4", "8", "3", "6", "4", "7">>

\* A Python int is unbounded.  One of at most 2^31 - 1 in magnitude is held as the
\* integer it is; a wider one is held as [neg, digits], its sign and its decimal
\* digits without leading zeros.  py_int gives [val, wide] for a sign and digits.
py_int(neg, digits) ==
    LET stripped == lstrip_set(digits, {"0"})
        mag == IF stripped = <<>> THEN <<"0">> ELSE stripped
    IN  IF Len(mag) < 10 \/ (Len(mag) = 10 /\ digits_le(mag, s_max_int))
        THEN [val |-> IF neg THEN 0 - nat_of(mag) ELSE nat_of(mag), wide |-> FALSE]
        ELSE [val |-> [neg |-> neg, digits |-> mag], wide |-> TRUE]

\* -n of a Python int held as [val, wide]
py_neg(n) ==
    IF n.wide THEN [val |-> [neg |-> ~n.val.neg, digits |-> n.val.digits], wide |-> TRUE]
    ELSE [val |-> 0 - n.val, wide |-> FALSE]

\* n < 0
py_negative(n) == IF n.wide THEN n.val.neg ELSE n.val < 0

\* a >= b of two Python ints held as [val, wide]
py_ge(a, b) ==
    IF ~a.wide /\ ~b.wide THEN a.val >= b.val
    ELSE IF a.wide /\ ~b.wide THEN ~a.val.neg
    ELSE IF ~a.wide /\ b.wide THEN b.val.neg
    ELSE IF a.val.neg /= b.val.neg THEN b.val.neg
    ELSE LET a_le_b == \/ Len(a.val.digits) < Len(b.val.digits)
                       \/ /\ Len(a.val.digits) = Len(b.val.digits)
                          /\ digits_le(a.val.digits, b.val.digits)
             b_le_a == \/ Len(b.val.digits) < Len(a.val.digits)
                       \/ /\ Len(a.val.digits) = Len(b.val.digits)
                          /\ digits_le(b.val.digits, a.val.digits)
         IN  IF a.val.neg THEN a_le_b ELSE b_le_a

\* the whitespace int() skips around the number: that of str.isspace() less the four
\* separators U+001C to U+001F
IntWhitespace == Whitespace \ {"", "", "", ""}

\* int(s) of a str: surrounding whitespace, an optional sign, digits.  The outcome is
\* [exc, val, wide]; wide tells that val is held as [neg, digits].
int(s) ==
    LET t == rstrip_set(lstrip_set(s, IntWhitespace), IntWhitespace)
        neg == t /= <<>> /\ Head(t) = "-"
        body == IF t /= <<>> /\ Head(t) \in {"+", "-"} THEN Tail(t) ELSE t
        r == digits_value(body)
    IN  IF r.exc /= "none" THEN [exc |-> r.exc, val |-> None, wide |-> FALSE]
        ELSE [exc |-> "none"] @@ py_int(neg, r.val)

\* str(n) of an int
RECURSIVE str_nat(_)
str_nat(n) ==
    IF n < 10 THEN <<Digits[n + 1]>>
    ELSE str_nat(n \div 10) \o <<Digits[(n % 10) + 1]>>

str(n) == IF n < 0 THEN <<"-">> \o str_nat(0 - n) ELSE str_nat(n)

\* '%02d' % n
pad2(n) == IF n < 10 THEN <<"0">> \o str_nat(n) ELSE str_nat(n)

LowerAlphabet == <<"a", "b", "c", "d", "e", "f", "g", "h", "i", "j", "k", "l", "m",
                   "n", "o", "p", "q", "r", "s", "t", "u", "v", "w", "x", "y", "z">>

UpperAlphabet == <<"A", "B", "C", "D", "E", "F", "G", "H", "I", "J", "K", "L", "M",
                   "N", "O", "P", "Q", "R", "S", "T", "U", "V", "W", "X", "Y", "Z">>

\* the capital letters of Latin-1 above ASCII, and their small letters
UpperLatin1 == <<"À", "Á", "Â", "Ã", "Ä", "Å", "Æ", "Ç", "È", "É", "Ê", "Ë", "Ì", "Í", "Î",
                   "Ï", "Ð", "Ñ", "Ò", "Ó", "Ô", "Õ", "Ö", "Ø", "Ù", "Ú", "Û", "Ü", "Ý", "Þ">>

LowerLatin1 == <<"à", "á", "â", "ã", "ä", "å", "æ", "ç", "è", "é", "ê", "ë", "ì", "í", "î",
                   "ï", "ð", "ñ", "ò", "ó", "ô", "õ", "ö", "ø", "ù", "ú", "û", "ü", "ý", "þ">>

lower_char(c) ==
    IF IsUpper(c) THEN LowerAlphabet[CHOOSE i \in 1..26 : UpperAlphabet[i] = c]
    ELSE IF \E i \in 1..30 : UpperLatin1[i] = c
    THEN LowerLatin1[CHOOSE i \in 1..30 : UpperLatin1[i] = c]
    ELSE c

\* str.lower(); joined to the empty string, the value is a sequence for TLC wherever
\* it is worked out, which a lookup in a large table needs to be fast
lower(s) == <<>> \o [i \in 1..Len(s) |-> lower_char(s[i])]

\* the pieces of s between its whitespace characters, the empty ones too: those of
\* the two halves of s, the last of the first half and the first of the second being
\* one piece
RECURSIVE split_space(_)
split_space(s) ==
    IF Len(s) <= 1 THEN (IF s /= <<>> /\ IsSpace(s[1]) THEN << <<>>, <<>> >> ELSE <<s>>)
    ELSE With(split_space(Take(s, Len(s) \div 2)), LAMBDA a :
         With(split_space(Drop(s, Len(s) \div 2)), LAMBDA b :
             Take(a, Len(a) - 1) \o << a[Len(a)] \o b[1] >> \o Tail(b)))

\* str.split(): the maximal runs of non-whitespace
split_ws(s) == SelectSeq(split_space(s), LAMBDA w : w /= <<>>)

-----------------------------------------------------------------------------
(* re: the two patterns the code compiles, '' and r'\b<token>\b' *)

s_gzip == <<"g", "z", "i", "p">>

s_br == <<"b", "r">>

\* \b at offset p of s (between s[p] and s[p+1], 1-based): exactly one side is a \w
word_boundary(s, p) ==
    LET before == p >= 1 /\ IsWordChar(s[p])
        after == p + 1 <= Len(s) /\ IsWordChar(s[p + 1])
    IN  before /= after

\* a search that finds every pattern in every string
re_search_any(pattern, s) == TRUE

\* re.compile(pattern).search(s) for pattern = [word |-> token] (r'\b%s\b' % token)
\* or [word |-> None] (the empty pattern, which matches every string)
re_search(pattern, s) ==
    IF pattern.word = None THEN TRUE
    ELSE \E i \in 0..(Len(s) - Len(pattern.word)) :
            /\ SubSeq(s, i + 1, i + Len(pattern.word)) = pattern.word
            /\ word_boundary(s, i)
            /\ word_boundary(s, i + Len(pattern.word))

-----------------------------------------------------------------------------
(* email.utils: formatdate(t, usegmt=True) and parsedate *)

DayNames == << <<"M", "o", "n">>, <<"T", "u", "e">>, <<"W", "e", "d">>, <<"T", "h", "u">>,
               <<"F", "r", "i">>, <<"S", "a", "t">>, <<"S", "u", "n">> >>

MonthNames == << <<"J", "a", "n">>, <<"F", "e", "b">>, <<"M", "a", "r">>, <<"A", "p", "r">>,
                 <<"M", "a", "y">>, <<"J", "u", "n">>, <<"J", "u", "l">>, <<"A", "u", "g">>,
                 <<"S", "e", "p">>, <<"O", "c", "t">>, <<"N", "o", "v">>, <<"D", "e", "c">> >>

s_GMT == <<"G", "M", "T">>

\* time.gmtime(secs) for secs >= 0: <<year, month, day, hour, minute, second, weekday>>,
\* weekday 0 = Monday
gmtime(secs) ==
    LET days == secs \div 86400
        rem == secs % 86400
        z == days + 719468
        era == z \div 146097
        doe == z - era * 146097
        yoe == (doe - doe \div 1460 + doe \div 36524 - doe \div 146096) \div 365
        doy == doe - (365 * yoe + yoe \div 4 - yoe \div 100)
        mp == (5 * doy + 2) \div 153
        d == doy - (153 * mp + 2) \div 5 + 1
        m == IF mp < 10 THEN mp + 3 ELSE mp - 9
        y == yoe + era * 400 + (IF m <= 2 THEN 1 ELSE 0)
    IN  <<y, m, d, rem \div 3600, (rem % 3600) \div 60, rem % 60, (days + 3) % 7>>

pad4(n) ==
    IF n < 10 THEN <<"0", "0", "0">> \o str_nat(n)
    ELSE IF n < 100 THEN <<"0", "0">> \o str_nat(n)
    ELSE IF n < 1000 THEN <<"0">> \o str_nat(n)
    ELSE str_nat(n)

\* A time stamp (st_mtime) is a float.  [secs, frac] stands for the float nearest to
\* secs + frac / FracUnits, with 0 <= secs < 2^31 - 1 and 0 <= frac < FracUnits = 2^29:
\* every float from 2^23 (April 1970) to 2^31 has this form.
FracUnits == 536870912

\* the distance between two floats next to each other from secs to secs + 1, in units
\* of 1 / FracUnits: a double has 53 bits, so numbers from 2^e to 2^(e+1) are 2^(e-52)
\* apart
RECURSIVE float_step(_)
float_step(secs) == IF secs < 16777216 THEN 1 ELSE 2 * float_step(secs \div 2)

\* float(secs + frac / FracUnits): the nearest float, the one with the even mantissa of
\* two that are equally near
float_of(secs, frac) ==
    LET step == float_step(secs)
        q == frac \div step
        r == frac % step
        up == 2 * r > step \/ (2 * r = step /\ q % 2 = 1)
        f == (IF up THEN q + 1 ELSE q) * step
    IN  IF f = FracUnits THEN [secs |-> secs + 1, frac |-> 0]
        ELSE [secs |-> secs, frac |-> f]

\* datetime.fromtimestamp(timeval, utc), less its microseconds: the whole seconds of
\* timeval after its fraction is rounded to microseconds, half to even.  The fraction
\* times 10^6 is exact in a double, and it rounds to 10^6 when it is 999999.5 or more:
\* when (FracUnits - frac) * 10^6 <= FracUnits / 2
fromtimestamp(timeval) ==
    With(float_of(timeval.secs, timeval.frac), LAMBDA d :
        IF /\ FracUnits - d.frac <= 1000
           /\ (FracUnits - d.frac) * 1000000 <= FracUnits \div 2
        THEN d.secs + 1
        ELSE d.secs)

\* formatdate(timeval, usegmt=True), which goes through datetime.fromtimestamp
\* (Python 3.6 and later; before, time.gmtime dropped the fraction)
formatdate(timeval) ==
    With(gmtime(fromtimestamp(timeval)), LAMBDA t :
        DayNames[t[7] + 1] \o <<",", " ">> \o pad2(t[3]) \o <<" ">> \o MonthNames[t[2]]
        \o <<" ">> \o pad4(t[1]) \o <<" ">> \o pad2(t[4]) \o <<":">> \o pad2(t[5])
        \o <<":">> \o pad2(t[6]) \o <<" ">> \o s_GMT)

\* email._parseaddr._monthnames: the short names, then the long ones
LongMonthNames ==
    << <<"j", "a", "n", "u", "a", "r", "y">>, <<"f", "e", "b", "r", "u", "a", "r", "y">>,
       <<"m", "a", "r", "c", "h">>, <<"a", "p", "r", "i", "l">>, <<"m", "a", "y">>,
       <<"j", "u", "n", "e">>, <<"j", "u", "l", "y">>, <<"a", "u", "g", "u", "s", "t">>,
       <<"s", "e", "p", "t", "e", "m", "b", "e", "r">>,
       <<"o", "c", "t", "o", "b", "e", "r">>, <<"n", "o", "v", "e", "m", "b", "e", "r">>,
       <<"d", "e", "c", "e", "m", "b", "e", "r">> >>

monthnames == [i \in 1..12 |-> lower(MonthNames[i])] \o LongMonthNames

\* _monthnames.index(mm) + 1, less 12 when above 12; 0 when mm is not a month name
month_index(mm) ==
    LET at == {i \in 1..24 : monthnames[i] = mm}
    IN  IF at = {} THEN 0
        ELSE With(CHOOSE i \in at : \A k \in at : i <= k, LAMBDA i :
                 IF i > 12 THEN i - 12 ELSE i)

\* c.isdigit() of a character of a native string
isdigit(c) == IsDigit(c) \/ c \in {"²", "³", "¹"}

\* the decimal digits of n - 1, for the digits of an n >= 1: the last digit that is
\* not 0 is one less, and the zeros after it are nines
dec_pred(d) ==
    With(CHOOSE i \in 1..Len(d) : d[i] /= "0" /\ \A j \in (i + 1)..Len(d) : d[j] = "0",
         LAMBDA last :
        [i \in 1..Len(d) |-> IF i < last THEN d[i]
                             ELSE IF i = last THEN Digits[DigitVal(d[i])]
                             ELSE "9"])

pad9(n) == With(str_nat(n), LAMBDA s : [i \in 1..(9 - Len(s)) |-> "0"] \o s)

\* the decimal digits of n - k, for the digits of an n above 2^31 and 0 <= k < 10^9
dec_sub(d, k) ==
    LET low == nat_of(Drop(d, Len(d) - 9))
        high == Take(d, Len(d) - 9)
    IN  IF low >= k THEN high \o pad9(low - k)
        ELSE dec_pred(high) \o pad9(low + 1000000000 - k)

\* the year of _parsedate_tz: yy += 1900 when 68 < yy < 100, yy += 2000 when yy <= 68
widen_year(yy) ==
    IF yy.wide
    THEN (IF yy.val.neg THEN py_int(TRUE, dec_sub(yy.val.digits, 2000)) ELSE yy)
    ELSE IF yy.val >= 100 THEN yy
    ELSE IF yy.val > 68 THEN [yy EXCEPT !.val = @ + 1900]
    ELSE [yy EXCEPT !.val = @ + 2000]

NoDate == [ok |-> FALSE, val |-> None, wide |-> None]

\* the end of _parsedate_tz: the fields converted by int(), a two-digit year widened.
\* wide tells which elements of val are held as [neg, digits].
parsedate_tuple(y, mi, d, hh, mn, ss) ==
    IF y.exc /= "none" \/ d.exc /= "none" \/ hh.exc /= "none"
       \/ mn.exc /= "none" \/ ss.exc /= "none" THEN NoDate
    ELSE With(widen_year(y), LAMBDA yy :
         [ok |-> TRUE,
          val |-> <<yy.val, mi, d.val, hh.val, mn.val, ss.val, 0, 1, 0 - 1>>,
          wide |-> <<yy.wide, FALSE, d.wide, hh.wide, mn.wide, ss.wide,
                     FALSE, FALSE, FALSE>>])

\* tm = tm.split(':') and what follows: <<thh, tmm, tss>>, or <<>> for a time that is
\* not two or three parts
time_parts(tm) ==
    With(split(tm, ":"), LAMBDA t :
        IF Len(t) = 2 THEN t \o << <<"0">> >>
        ELSE IF Len(t) = 3 THEN t
        ELSE IF Len(t) = 1 /\ find_char(t[1], ".", 1) /= 0
        THEN With(split(t[1], "."), LAMBDA u :
                 IF Len(u) = 2 THEN u \o << <<"0">> >>
                 ELSE IF Len(u) = 3 THEN u
                 ELSE <<>>)
        ELSE <<>>)

\* s[:-1] when s ends with a comma (s is not empty)
drop_comma(s) == IF s[Len(s)] = "," THEN Take(s, Len(s) - 1) ELSE s

\* _parsedate_tz from [dd, mm, yy, tm, tz] on
parsedate_fields(dd0, mm0, yy0, tm0, tz0) ==
    IF dd0 = <<>> \/ mm0 = <<>> \/ yy0 = <<>> THEN NoDate
    ELSE
    With(month_index(lower(mm0)) /= 0, LAMBDA named :
    With(IF named THEN lower(mm0) ELSE lower(dd0), LAMBDA mm :
    With(IF named THEN dd0 ELSE lower(mm0), LAMBDA dd1 :
        IF month_index(mm) = 0 THEN NoDate
        ELSE
        With(drop_comma(dd1), LAMBDA dd :
        With(find_char(yy0, ":", 1) > 1, LAMBDA swapped :
        With(drop_comma(IF swapped THEN tm0 ELSE yy0), LAMBDA yy1 :
        With(IF swapped THEN yy0 ELSE tm0, LAMBDA tm1 :
            IF yy1 = <<>> THEN NoDate
            ELSE
            With(IF isdigit(yy1[1]) THEN yy1 ELSE tz0, LAMBDA yy :
            With(time_parts(drop_comma(tm1)), LAMBDA t :
                IF t = <<>> THEN NoDate
                ELSE parsedate_tuple(int(yy), month_index(mm), int(dd),
                                     int(t[1]), int(t[2]), int(t[3])))))))))))

\* data = data.split() and what _parsedate_tz does to the list up to data[:5]
parsedate_words(data) ==
    With(split_ws(data), LAMBDA w :
        IF w = <<>> THEN <<>>
        ELSE
        With(IF endswith(w[1], <<",">>) \/ \E i \in 1..7 : lower(DayNames[i]) = lower(w[1])
             THEN Tail(w)
             ELSE [w EXCEPT ![1] = Drop(@, rfind_char(@, ",", Len(@)))], LAMBDA d1 :
        With(IF Len(d1) = 3 /\ Len(split(d1[1], "-")) = 3
             THEN split(d1[1], "-") \o Tail(d1) ELSE d1, LAMBDA d2 :
            IF Len(d2) /= 4 THEN d2
            ELSE
            With(d2[4], LAMBDA s :
            With(IF find_char(s, "+", 1) /= 0 THEN find_char(s, "+", 1)
                 ELSE find_char(s, "-", 1), LAMBDA i :
                IF i > 1 THEN Take(d2, 3) \o <<Take(s, i - 1), Drop(s, i - 1)>>
                ELSE Append(d2, <<>>))))))

\* email._parseaddr._parsedate_tz(data) less the zone offset: [ok, val, wide], val the
\* 9-tuple (yy, mm, dd, hh, mm, ss, 0, 1, -1) when ok
parsedate_tz(data) ==
    IF ~Truthy(data) THEN NoDate
    ELSE
    With(parsedate_words(data), LAMBDA w :
        IF Len(w) < 5 THEN NoDate
        ELSE parsedate_fields(w[1], w[2], w[3], w[4], w[5]))

\* email.utils.parsedate(data): the 9-tuple, or None.  The time zone is read and dropped.
parsedate(data) == With(parsedate_tz(data), LAMBDA r : IF r.ok THEN r.val ELSE None)

\* the Python ints of a tuple: [val, wide] each
py_ints(t, w) == [i \in 1..Len(t) |-> [val |-> t[i], wide |-> w[i]]]

\* a == b of two Python ints
py_eq(a, b) == IF a.wide /= b.wide THEN FALSE ELSE a.val = b.val

\* a > b in the place of a >= b
RECURSIVE tuple_gt(_, _)
tuple_gt(a, b) ==
    IF a = <<>> THEN FALSE
    ELSE IF py_eq(Head(a), Head(b)) THEN tuple_gt(Tail(a), Tail(b))
    ELSE py_ge(Head(a), Head(b))

\* a >= b of two tuples of ints of one length: lexicographic
RECURSIVE tuple_ge(_, _)
tuple_ge(a, b) ==
    IF a = <<>> THEN TRUE
    ELSE IF py_eq(Head(a), Head(b)) THEN tuple_ge(Tail(a), Tail(b))
    ELSE py_ge(Head(a), Head(b))

\* parsedate(header) >= last_modified as Python 3 evaluates it: a TypeError when either
\* side is None.  last_modified is the date of a Last-Modified the server made.
date_ge(header, last_modified) ==
    With(parsedate_tz(header), LAMBDA a :
        IF ~a.ok \/ last_modified = None THEN Raise("TypeError")
        ELSE Ok(tuple_ge(py_ints(a.val, a.wide),
                         py_ints(last_modified, [i \in 1..9 |-> FALSE]))))


-----------------------------------------------------------------------------
(* posixpath, os.path *)

\* the body of the loop of normpath over comps, for one comp: the new new_comps
normpath_comp(comp, new_comps, initial_slashes) ==
    LET n == Len(new_comps)
    IN  IF comp = <<>> \/ comp = <<".">> THEN new_comps
        ELSE IF \/ comp /= <<".", ".">>
                \/ (initial_slashes = 0 /\ n = 0)
                \/ (n > 0 /\ new_comps[n] = <<".", ".">>) THEN Append(new_comps, comp)
        ELSE IF n > 0 THEN Take(new_comps, n - 1)
        ELSE new_comps

\* the loop of normpath over comps: over one half of them, then over the other (the
\* test of Len(new_comps) has TLC work out what the first half leaves before it goes on)
RECURSIVE normpath_comps(_, _, _)
normpath_comps(comps, new_comps, initial_slashes) ==
    IF Len(new_comps) < 0 \/ comps = <<>> THEN new_comps
    ELSE IF Len(comps) = 1 THEN normpath_comp(comps[1], new_comps, initial_slashes)
    ELSE normpath_comps(Drop(comps, Len(comps) \div 2),
                        normpath_comps(Take(comps, Len(comps) \div 2), new_comps,
                                       initial_slashes),
                        initial_slashes)

\* posixpath.normpath(path)
normpath(path) ==
    IF path = <<>> THEN <<".">>
    ELSE
    LET initial_slashes ==
            IF ~startswith(path, <<"/">>) THEN 0
            ELSE IF startswith(path, <<"/", "/">>) /\ ~startswith(path, <<"/", "/", "/">>)
                 THEN 2
            ELSE 1
        comps == normpath_comps(split(path, "/"), <<>>, initial_slashes)
        joined == join_with(comps, "/")
        out == IF initial_slashes = 2 THEN <<"/", "/">> \o joined
               ELSE IF initial_slashes = 1 THEN <<"/">> \o joined
               ELSE joined
    IN  IF out = <<>> THEN <<".">> ELSE out

\* os.path.join(a, b) on POSIX: an absolute b replaces a
path_join(a, b) ==
    IF startswith(b, <<"/">>) THEN b
    ELSE IF a = <<>> \/ endswith(a, <<"/">>) THEN a \o b
    ELSE a \o <<"/">> \o b

\* posixpath.relpath(path, start) of two absolute paths
relpath(path, start) ==
    LET start_list == SelectSeq(split(normpath(start), "/"), LAMBDA x : x /= <<>>)
        path_list == SelectSeq(split(normpath(path), "/"), LAMBDA x : x /= <<>>)
        common == {k \in 0..Len(start_list) :
                      /\ k <= Len(path_list)
                      /\ \A j \in 1..k : start_list[j] = path_list[j]}
        i == CHOOSE k \in common : \A j \in common : j <= k
        rel_list == [j \in 1..(Len(start_list) - i) |-> <<".", ".">>] \o Drop(path_list, i)
    IN  IF rel_list = <<>> THEN <<".">> ELSE join_with(rel_list, "/")

\* posixpath.basename(p)
basename(p) == Drop(p, rfind_char(p, "/", Len(p)))

\* posixpath.splitext(p): <<root, ext>>; the extension starts at the last dot of the
\* last component, and leading dots of that component start no extension
splitext(p) ==
    LET sepIndex == rfind_char(p, "/", Len(p))
        dotIndex == rfind_char(p, ".", Len(p))
    IN  IF dotIndex > sepIndex
           /\ \E k \in (sepIndex + 1)..(dotIndex - 1) : p[k] /= "."
        THEN <<Take(p, dotIndex - 1), Drop(p, dotIndex - 1)>>
        ELSE <<p, <<>>>>

-----------------------------------------------------------------------------
(* mimetypes.guess_type(url) with the tables mimetypes.init() builds: those of the
   module (Python 3.11) and, in types_map, the entries of /etc/mime.types *)

s_octet_stream == <<"a", "p", "p", "l", "i", "c", "a", "t", "i", "o", "n", "/",
                    "o", "c", "t", "e", "t", "-", "s", "t", "r", "e", "a", "m">>

s_text_plain == <<"t", "e", "x", "t", "/", "p", "l", "a", "i", "n">>

s_data == <<"d", "a", "t", "a">>

\* dict(items) for a set of <<key, value>> with distinct keys
dict(items) == [k \in {it[1] : it \in items} |-> (CHOOSE it \in items : it[1] = k)[2]]

\* d.get(k)
dict_get(d, k) == IF k \in DOMAIN d THEN d[k] ELSE None

\* mimetypes.suffix_map
suffix_map ==
    dict({<<<<".", "s", "v", "g", "z">>, <<".", "s", "v", "g", ".", "g", "z">>>>,
          <<<<".", "t", "g", "z">>, <<".", "t", "a", "r", ".", "g", "z">>>>,
          <<<<".", "t", "a", "z">>, <<".", "t", "a", "r", ".", "g", "z">>>>,
          <<<<".", "t", "z">>, <<".", "t", "a", "r", ".", "g", "z">>>>,
          <<<<".", "t", "b", "z", "2">>, <<".", "t", "a", "r", ".", "b", "z", "2">>>>,
          <<<<".", "t", "x", "z">>, <<".", "t", "a", "r", ".", "x", "z">>>>})

\* mimetypes.encodings_map
encodings_map ==
    dict({<<<<".", "g", "z">>, <<"g", "z", "i", "p">>>>,
          <<<<".", "Z">>, <<"c", "o", "m", "p", "r", "e", "s", "s">>>>,
          <<<<".", "b", "z", "2">>, <<"b", "z", "i", "p", "2">>>>,
          <<<<".", "x", "z">>, <<"x", "z">>>>, <<<<".", "b", "r">>, <<"b", "r">>>>})

\* mimetypes.types_map, the strict table
types_map ==
    dict({<<<<".", "j", "s">>, <<"t", "e", "x", "t", "/", "j", "a", "v", "a", "s", "c", "r", "i", "p", "t">>>>,
          <<<<".", "m", "j", "s">>, <<"t", "e", "x", "t", "/", "j", "a", "v", "a", "s", "c", "r", "i", "p", "t">>>>,
          <<<<".", "j", "s", "o", "n">>, <<"a", "p", "p", "l", "i", "c", "a", "t", "i", "o", "n", "/", "j", "s", "o", "n">>>>,
          <<<<".", "w", "e", "b", "m", "a", "n", "i", "f", "e", "s", "t">>, <<"a", "p", "p", "l", "i", "c", "a", "t", "i", "o", "n", "/", "m", "a", "n", "i", "f", "e", "s", "t", "+", "j", "s", "o", "n">>>>,
          <<<<".", "d", "o", "c">>, <<"a", "p", "p", "l", "i", "c", "a", "t", "i", "o", "n", "/", "m", "s", "w", "o", "r", "d">>>>,
          <<<<".", "d", "o", "t">>, <<"t", "e", "x", "t", "/", "v", "n", "d", ".", "g", "r", "a", "p", "h", "v", "i", "z">>>>,
          <<<<".", "w", "i", "z">>, <<"a", "p", "p", "l", "i", "c", "a", "t", "i", "o", "n", "/", "m", "s", "w", "o", "r", "d">>>>,
          <<<<".", "n", "q">>, <<"a", "p", "p", "l", "i", "c", "a", "t", "i", "o", "n", "/", "n", "-", "q", "u", "a", "d", "s">>>>,
          <<<<".", "n", "t">>, <<"a", "p", "p", "l", "i", "c", "a", "t", "i", "o", "n", "/", "n", "-", "t", "r", "i", "p", "l", "e", "s">>>>,
          <<<<".", "b", "i", "n">>, <<"a", "p", "p", "l", "i", "c", "a", "t", "i", "o", "n", "/", "o", "c", "t", "e", "t", "-", "s", "t", "r", "e", "a", "m">>>>,
          <<<<".", "a">>, <<"t", "e", "x", "t", "/", "v", "n", "d", ".", "a">>>>,
          <<<<".", "d", "l", "l">>, <<"a", "p", "p", "l", "i", "c", "a", "t", "i", "o", "n", "/", "x", "-", "m", "s", "d", "o", "s", "-", "p", "r", "o", "g", "r", "a", "m">>>>,
          <<<<".", "e", "x", "e">>, <<"a", "p", "p", "l", "i", "c", "a", "t", "i", "o", "n", "/", "x", "-", "m", "s", "d", "o", "s", "-", "p", "r", "o", "g", "r", "a", "m">>>>,
          <<<<".", "o">>, <<"a", "p", "p", "l", "i", "c", "a", "t", "i", "o", "n", "/", "x", "-", "o", "b", "j", "e", "c", "t">>>>,
          <<<<".", "o", "b", "j">>, <<"m", "o", "d", "e", "l", "/", "o", "b", "j">>>>,
          <<<<".", "s", "o">>, <<"a", "p", "p", "l", "i", "c", "a", "t", "i", "o", "n", "/", "o", "c", "t", "e", "t", "-", "s", "t", "r", "e", "a", "m">>>>,
          <<<<".", "o", "d", "a">>, <<"a", "p", "p", "l", "i", "c", "a", "t", "i", "o", "n", "/", "O", "D", "A">>>>,
          <<<<".", "p", "d", "f">>, <<"a", "p", "p", "l", "i", "c", "a", "t", "i", "o", "n", "/", "p", "d", "f">>>>,
          <<<<".", "p", "7", "c">>, <<"a", "p", "p", "l", "i", "c", "a", "t", "i", "o", "n", "/", "p", "k", "c", "s", "7", "-", "m", "i", "m", "e">>>>,
          <<<<".", "p", "s">>, <<"a", "p", "p", "l", "i", "c", "a", "t", "i", "o", "n", "/", "p", "o", "s", "t", "s", "c", "r", "i", "p", "t">>>>,
          <<<<".", "a", "i">>, <<"a", "p", "p", "l", "i", "c", "a", "t", "i", "o", "n", "/", "p", "o", "s", "t", "s", "c", "r", "i", "p", "t">>>>,
          <<<<".", "e", "p", "s">>, <<"a", "p", "p", "l", "i", "c", "a", "t", "i", "o", "n", "/", "p", "o", "s", "t", "s", "c", "r", "i", "p", "t">>>>,
          <<<<".", "t", "r", "i", "g">>, <<"a", "p", "p", "l", "i", "c", "a", "t", "i", "o", "n", "/", "t", "r", "i", "g">>>>,
          <<<<".", "m", "3", "u">>, <<"a", "u", "d", "i", "o", "/", "m", "p", "e", "g", "u", "r", "l">>>>,
          <<<<".", "m", "3", "u", "8">>, <<"a", "p", "p", "l", "i", "c", "a", "t", "i", "o", "n", "/", "v", "n", "d", ".", "a", "p", "p", "l", "e", ".", "m", "p", "e", "g", "u", "r", "l">>>>,
          <<<<".", "x", "l", "s">>, <<"a", "p", "p", "l", "i", "c", "a", "t", "i", "o", "n", "/", "v", "n", "d", ".", "m", "s", "-", "e", "x", "c", "e", "l">>>>,
          <<<<".", "x", "l", "b">>, <<"a", "p", "p", "l", "i", "c", "a", "t", "i", "o", "n", "/", "v", "n", "d", ".", "m", "s", "-", "e", "x", "c", "e", "l">>>>,
          <<<<".", "p", "p", "t">>, <<"a", "p", "p", "l", "i", "c", "a", "t", "i", "o", "n", "/", "v", "n", "d", ".", "m", "s", "-", "p", "o", "w", "e", "r", "p", "o", "i", "n", "t">>>>,
          <<<<".", "p", "o", "t">>, <<"t", "e", "x", "t", "/", "p", "l", "a", "i", "n">>>>,
          <<<<".", "p", "p", "a">>, <<"a", "p", "p", "l", "i", "c", "a", "t", "i", "o", "n", "/", "v", "n", "d", ".", "m", "s", "-", "p", "o", "w", "e", "r", "p", "o", "i", "n", "t">>>>,
          <<<<".", "p", "p", "s">>, <<"a", "p", "p", "l", "i", "c", "a", "t", "i", "o", "n", "/", "v", "n", "d", ".", "m", "s", "-", "p", "o", "w", "e", "r", "p", "o", "i", "n", "t">>>>,
          <<<<".", "p", "w", "z">>, <<"a", "p", "p", "l", "i", "c", "a", "t", "i", "o", "n", "/", "v", "n", "d", ".", "m", "s", "-", "p", "o", "w", "e", "r", "p", "o", "i", "n", "t">>>>,
          <<<<".", "w", "a", "s", "m">>, <<"a", "p", "p", "l", "i", "c", "a", "t", "i", "o", "n", "/", "w", "a", "s", "m">>>>,
          <<<<".", "b", "c", "p", "i", "o">>, <<"a", "p", "p", "l", "i", "c", "a", "t", "i", "o", "n", "/", "x", "-", "b", "c", "p", "i", "o">>>>,
          <<<<".", "c", "p", "i", "o">>, <<"a", "p", "p", "l", "i", "c", "a", "t", "i", "o", "n", "/", "x", "-", "c", "p", "i", "o">>>>,
          <<<<".", "c", "s", "h">>, <<"t", "e", "x", "t", "/", "x", "-", "c", "s", "h">>>>,
          <<<<".", "d", "v", "i">>, <<"a", "p", "p", "l", "i", "c", "a", "t", "i", "o", "n", "/", "x", "-", "d", "v", "i">>>>,
          <<<<".", "g", "t", "a", "r">>, <<"a", "p", "p", "l", "i", "c", "a", "t", "i", "o", "n", "/", "x", "-", "g", "t", "a", "r">>>>,
          <<<<".", "h", "d", "f">>, <<"a", "p", "p", "l", "i", "c", "a", "t", "i", "o", "n", "/", "x", "-", "h", "d", "f">>>>,
          <<<<".", "h", "5">>, <<"a", "p", "p", "l", "i", "c", "a", "t", "i", "o", "n", "/", "x", "-", "h", "d", "f", "5">>>>,
          <<<<".", "l", "a", "t", "e", "x">>, <<"a", "p", "p", "l", "i", "c", "a", "t", "i", "o", "n", "/", "x", "-", "l", "a", "t", "e", "x">>>>,
          <<<<".", "m", "i", "f">>, <<"a", "p", "p", "l", "i", "c", "a", "t", "i", "o", "n", "/", "v", "n", "d", ".", "m", "i", "f">>>>,
          <<<<".", "c", "d", "f">>, <<"a", "p", "p", "l", "i", "c", "a", "t", "i", "o", "n", "/", "x", "-", "c", "d", "f">>>>,
          <<<<".", "n", "c">>, <<"a", "p", "p", "l", "i", "c", "a", "t", "i", "o", "n", "/", "x", "-", "n", "e", "t", "c", "d", "f">>>>,
          <<<<".", "p", "1", "2">>, <<"a", "p", "p", "l", "i", "c", "a", "t", "i", "o", "n", "/", "p", "k", "c", "s", "1", "2">>>>,
          <<<<".", "p", "f", "x">>, <<"a", "p", "p", "l", "i", "c", "a", "t", "i", "o", "n", "/", "p", "k", "c", "s", "1", "2">>>>,
          <<<<".", "r", "a", "m">>, <<"a", "u", "d", "i", "o", "/", "x", "-", "p", "n", "-", "r", "e", "a", "l", "a", "u", "d", "i", "o">>>>,
          <<<<".", "p", "y", "c">>, <<"a", "p", "p", "l", "i", "c", "a", "t", "i", "o", "n", "/", "x", "-", "p", "y", "t", "h", "o", "n", "-", "c", "o", "d", "e">>>>,
          <<<<".", "p", "y", "o">>, <<"a", "p", "p", "l", "i", "c", "a", "t", "i", "o", "n", "/", "x", "-", "p", "y", "t", "h", "o", "n", "-", "c", "o", "d", "e">>>>,
          <<<<".", "s", "h">>, <<"t", "e", "x", "t", "/", "x", "-", "s", "h">>>>,
          <<<<".", "s", "h", "a", "r">>, <<"a", "p", "p", "l", "i", "c", "a", "t", "i", "o", "n", "/", "x", "-", "s", "h", "a", "r">>>>,
          <<<<".", "s", "w", "f">>, <<"a", "p", "p", "l", "i", "c", "a", "t", "i", "o", "n", "/", "v", "n", "d", ".", "a", "d", "o", "b", "e", ".", "f", "l", "a", "s", "h", ".", "m", "o", "v", "i", "e">>>>,
          <<<<".", "s", "v", "4", "c", "p", "i", "o">>, <<"a", "p", "p", "l", "i", "c", "a", "t", "i", "o", "n", "/", "x", "-", "s", "v", "4", "c", "p", "i", "o">>>>,
          <<<<".", "s", "v", "4", "c", "r", "c">>, <<"a", "p", "p", "l", "i", "c", "a", "t", "i", "o", "n", "/", "x", "-", "s", "v", "4", "c", "r", "c">>>>,
          <<<<".", "t", "a", "r">>, <<"a", "p", "p", "l", "i", "c", "a", "t", "i", "o", "n", "/", "x", "-", "t", "a", "r">>>>,
          <<<<".", "t", "c", "l">>, <<"t", "e", "x", "t", "/", "x", "-", "t", "c", "l">>>>,
          <<<<".", "t", "e", "x">>, <<"t", "e", "x", "t", "/", "x", "-", "t", "e", "x">>>>,
          <<<<".", "t", "e", "x", "i">>, <<"a", "p", "p", "l", "i", "c", "a", "t", "i", "o", "n", "/", "x", "-", "t", "e", "x", "i", "n", "f", "o">>>>,
          <<<<".", "t", "e", "x", "i", "n", "f", "o">>, <<"a", "p", "p", "l", "i", "c", "a", "t", "i", "o", "n", "/", "x", "-", "t", "e", "x", "i", "n", "f", "o">>>>,
          <<<<".", "r", "o", "f", "f">>, <<"t", "e", "x", "t", "/", "t", "r", "o", "f", "f">>>>,
          <<<<".", "t">>, <<"t", "e", "x", "t", "/", "t", "r", "o", "f", "f">>>>,
          <<<<".", "t", "r">>, <<"t", "e", "x", "t", "/", "t", "r", "o", "f", "f">>>>,
          <<<<".", "m", "a", "n">>, <<"a", "p", "p", "l", "i", "c", "a", "t", "i", "o", "n", "/", "x", "-", "t", "r", "o", "f", "f", "-", "m", "a", "n">>>>,
          <<<<".", "m", "e">>, <<"a", "p", "p", "l", "i", "c", "a", "t", "i", "o", "n", "/", "x", "-", "t", "r", "o", "f", "f", "-", "m", "e">>>>,
          <<<<".", "m", "s">>, <<"a", "p", "p", "l", "i", "c", "a", "t", "i", "o", "n", "/", "x", "-", "t", "r", "o", "f", "f", "-", "m", "s">>>>,
          <<<<".", "u", "s", "t", "a", "r">>, <<"a", "p", "p", "l", "i", "c", "a", "t", "i", "o", "n", "/", "x", "-", "u", "s", "t", "a", "r">>>>,
          <<<<".", "s", "r", "c">>, <<"a", "p", "p", "l", "i", "c", "a", "t", "i", "o", "n", "/", "x", "-", "w", "a", "i", "s", "-", "s", "o", "u", "r", "c", "e">>>>,
          <<<<".", "x", "s", "l">>, <<"a", "p", "p", "l", "i", "c", "a", "t", "i", "o", "n", "/", "x", "s", "l", "t", "+", "x", "m", "l">>>>,
          <<<<".", "r", "d", "f">>, <<"a", "p", "p", "l", "i", "c", "a", "t", "i", "o", "n", "/", "r", "d", "f", "+", "x", "m", "l">>>>,
          <<<<".", "w", "s", "d", "l">>, <<"a", "p", "p", "l", "i", "c", "a", "t", "i", "o", "n", "/", "w", "s", "d", "l", "+", "x", "m", "l">>>>,
          <<<<".", "x", "p", "d", "l">>, <<"a", "p", "p", "l", "i", "c", "a", "t", "i", "o", "n", "/", "x", "m", "l">>>>,
          <<<<".", "z", "i", "p">>, <<"a", "p", "p", "l", "i", "c", "a", "t", "i", "o", "n", "/", "z", "i", "p">>>>,
          <<<<".", "3", "g", "p">>, <<"a", "u", "d", "i", "o", "/", "3", "g", "p", "p">>>>,
          <<<<".", "3", "g", "p", "p">>, <<"a", "u", "d", "i", "o", "/", "3", "g", "p", "p">>>>,
          <<<<".", "3", "g", "2">>, <<"a", "u", "d", "i", "o", "/", "3", "g", "p", "p", "2">>>>,
          <<<<".", "3", "g", "p", "p", "2">>, <<"a", "u", "d", "i", "o", "/", "3", "g", "p", "p", "2">>>>,
          <<<<".", "a", "a", "c">>, <<"a", "u", "d", "i", "o", "/", "a", "a", "c">>>>,
          <<<<".", "a", "d", "t", "s">>, <<"a", "u", "d", "i", "o", "/", "a", "a", "c">>>>,
          <<<<".", "l", "o", "a", "s">>, <<"a", "u", "d", "i", "o", "/", "u", "s", "a", "c">>>>,
          <<<<".", "a", "s", "s">>, <<"a", "u", "d", "i", "o", "/", "a", "a", "c">>>>,
          <<<<".", "a", "u">>, <<"a", "u", "d", "i", "o", "/", "b", "a", "s", "i", "c">>>>,
          <<<<".", "s", "n", "d">>, <<"a", "u", "d", "i", "o", "/", "b", "a", "s", "i", "c">>>>,
          <<<<".", "m", "p", "3">>, <<"a", "u", "d", "i", "o", "/", "m", "p", "e", "g">>>>,
          <<<<".", "m", "p", "2">>, <<"a", "u", "d", "i", "o", "/", "m", "p", "e", "g">>>>,
          <<<<".", "o", "p", "u", "s">>, <<"a", "u", "d", "i", "o", "/", "o", "g", "g">>>>,
          <<<<".", "a", "i", "f">>, <<"a", "u", "d", "i", "o", "/", "x", "-", "a", "i", "f", "f">>>>,
          <<<<".", "a", "i", "f", "c">>, <<"a", "u", "d", "i", "o", "/", "x", "-", "a", "i", "f", "f">>>>,
          <<<<".", "a", "i", "f", "f">>, <<"a", "u", "d", "i", "o", "/", "x", "-", "a", "i", "f", "f">>>>,
          <<<<".", "r", "a">>, <<"a", "u", "d", "i", "o", "/", "x", "-", "p", "n", "-", "r", "e", "a", "l", "a", "u", "d", "i", "o">>>>,
          <<<<".", "w", "a", "v">>, <<"a", "u", "d", "i", "o", "/", "x", "-", "w", "a", "v">>>>,
          <<<<".", "a", "v", "i", "f">>, <<"i", "m", "a", "g", "e", "/", "a", "v", "i", "f">>>>,
          <<<<".", "b", "m", "p">>, <<"i", "m", "a", "g", "e", "/", "b", "m", "p">>>>,
          <<<<".", "g", "i", "f">>, <<"i", "m", "a", "g", "e", "/", "g", "i", "f">>>>,
          <<<<".", "i", "e", "f">>, <<"i", "m", "a", "g", "e", "/", "i", "e", "f">>>>,
          <<<<".", "j", "p", "g">>, <<"i", "m", "a", "g", "e", "/", "j", "p", "e", "g">>>>,
          <<<<".", "j", "p", "e">>, <<"i", "m", "a", "g", "e", "/", "j", "p", "e", "g">>>>,
          <<<<".", "j", "p", "e", "g">>, <<"i", "m", "a", "g", "e", "/", "j", "p", "e", "g">>>>,
          <<<<".", "h", "e", "i", "c">>, <<"i", "m", "a", "g", "e", "/", "h", "e", "i", "c">>>>,
          <<<<".", "h", "e", "i", "f">>, <<"i", "m", "a", "g", "e", "/", "h", "e", "i", "f">>>>,
          <<<<".", "p", "n", "g">>, <<"i", "m", "a", "g", "e", "/", "p", "n", "g">>>>,
          <<<<".", "s", "v", "g">>, <<"i", "m", "a", "g", "e", "/", "s", "v", "g", "+", "x", "m", "l">>>>,
          <<<<".", "t", "i", "f", "f">>, <<"i", "m", "a", "g", "e", "/", "t", "i", "f", "f">>>>,
          <<<<".", "t", "i", "f">>, <<"i", "m", "a", "g", "e", "/", "t", "i", "f", "f">>>>,
          <<<<".", "i", "c", "o">>, <<"i", "m", "a", "g", "e", "/", "v", "n", "d", ".", "m", "i", "c", "r", "o", "s", "o", "f", "t", ".", "i", "c", "o", "n">>>>,
          <<<<".", "r", "a", "s">>, <<"i", "m", "a", "g", "e", "/", "x", "-", "c", "m", "u", "-", "r", "a", "s", "t", "e", "r">>>>,
          <<<<".", "p", "n", "m">>, <<"i", "m", "a", "g", "e", "/", "x", "-", "p", "o", "r", "t", "a", "b", "l", "e", "-", "a", "n", "y", "m", "a", "p">>>>,
          <<<<".", "p", "b", "m">>, <<"i", "m", "a", "g", "e", "/", "x", "-", "p", "o", "r", "t", "a", "b", "l", "e", "-", "b", "i", "t", "m", "a", "p">>>>,
          <<<<".", "p", "g", "m">>, <<"i", "m", "a", "g", "e", "/", "x", "-", "p", "o", "r", "t", "a", "b", "l", "e", "-", "g", "r", "a", "y", "m", "a", "p">>>>,
          <<<<".", "p", "p", "m">>, <<"i", "m", "a", "g", "e", "/", "x", "-", "p", "o", "r", "t", "a", "b", "l", "e", "-", "p", "i", "x", "m", "a", "p">>>>,
          <<<<".", "r", "g", "b">>, <<"i", "m", "a", "g", "e", "/", "x", "-", "r", "g", "b">>>>,
          <<<<".", "x", "b", "m">>, <<"i", "m", "a", "g", "e", "/", "x", "-", "x", "b", "i", "t", "m", "a", "p">>>>,
          <<<<".", "x", "p", "m">>, <<"i", "m", "a", "g", "e", "/", "x", "-", "x", "p", "i", "x", "m", "a", "p">>>>,
          <<<<".", "x", "w", "d">>, <<"i", "m", "a", "g", "e", "/", "x", "-", "x", "w", "i", "n", "d", "o", "w", "d", "u", "m", "p">>>>,
          <<<<".", "e", "m", "l">>, <<"m", "e", "s", "s", "a", "g", "e", "/", "r", "f", "c", "8", "2", "2">>>>,
          <<<<".", "m", "h", "t">>, <<"m", "e", "s", "s", "a", "g", "e", "/", "r", "f", "c", "8", "2", "2">>>>,
          <<<<".", "m", "h", "t", "m", "l">>, <<"m", "e", "s", "s", "a", "g", "e", "/", "r", "f", "c", "8", "2", "2">>>>,
          <<<<".", "n", "w", "s">>, <<"m", "e", "s", "s", "a", "g", "e", "/", "r", "f", "c", "8", "2", "2">>>>,
          <<<<".", "c", "s", "s">>, <<"t", "e", "x", "t", "/", "c", "s", "s">>>>,
          <<<<".", "c", "s", "v">>, <<"t", "e", "x", "t", "/", "c", "s", "v">>>>,
          <<<<".", "h", "t", "m", "l">>, <<"t", "e", "x", "t", "/", "h", "t", "m", "l">>>>,
          <<<<".", "h", "t", "m">>, <<"t", "e", "x", "t", "/", "h", "t", "m", "l">>>>,
          <<<<".", "n", "3">>, <<"t", "e", "x", "t", "/", "n", "3">>>>,
          <<<<".", "t", "x", "t">>, <<"t", "e", "x", "t", "/", "p", "l", "a", "i", "n">>>>,
          <<<<".", "b", "a", "t">>, <<"a", "p", "p", "l", "i", "c", "a", "t", "i", "o", "n", "/", "x", "-", "m", "s", "d", "o", "s", "-", "p", "r", "o", "g", "r", "a", "m">>>>,
          <<<<".", "c">>, <<"t", "e", "x", "t", "/", "x", "-", "c", "s", "r", "c">>>>,
          <<<<".", "h">>, <<"t", "e", "x", "t", "/", "x", "-", "c", "h", "d", "r">>>>,
          <<<<".", "k", "s", "h">>, <<"t", "e", "x", "t", "/", "p", "l", "a", "i", "n">>>>,
          <<<<".", "p", "l">>, <<"t", "e", "x", "t", "/", "x", "-", "p", "e", "r", "l">>>>,
          <<<<".", "s", "r", "t">>, <<"t", "e", "x", "t", "/", "p", "l", "a", "i", "n">>>>,
          <<<<".", "r", "t", "x">>, <<"t", "e", "x", "t", "/", "r", "i", "c", "h", "t", "e", "x", "t">>>>,
          <<<<".", "t", "s", "v">>, <<"t", "e", "x", "t", "/", "t", "a", "b", "-", "s", "e", "p", "a", "r", "a", "t", "e", "d", "-", "v", "a", "l", "u", "e", "s">>>>,
          <<<<".", "v", "t", "t">>, <<"t", "e", "x", "t", "/", "v", "t", "t">>>>,
          <<<<".", "p", "y">>, <<"t", "e", "x", "t", "/", "x", "-", "p", "y", "t", "h", "o", "n">>>>,
          <<<<".", "e", "t", "x">>, <<"t", "e", "x", "t", "/", "x", "-", "s", "e", "t", "e", "x", "t">>>>,
          <<<<".", "s", "g", "m">>, <<"t", "e", "x", "t", "/", "S", "G", "M", "L">>>>,
          <<<<".", "s", "g", "m", "l">>, <<"t", "e", "x", "t", "/", "S", "G", "M", "L">>>>,
          <<<<".", "v", "c", "f">>, <<"t", "e", "x", "t", "/", "v", "c", "a", "r", "d">>>>,
          <<<<".", "x", "m", "l">>, <<"a", "p", "p", "l", "i", "c", "a", "t", "i", "o", "n", "/", "x", "m", "l">>>>,
          <<<<".", "m", "p", "4">>, <<"v", "i", "d", "e", "o", "/", "m", "p", "4">>>>,
          <<<<".", "m", "p", "e", "g">>, <<"v", "i", "d", "e", "o", "/", "m", "p", "e", "g">>>>,
          <<<<".", "m", "1", "v">>, <<"v", "i", "d", "e", "o", "/", "m", "p", "e", "g">>>>,
          <<<<".", "m", "p", "a">>, <<"v", "i", "d", "e", "o", "/", "m", "p", "e", "g">>>>,
          <<<<".", "m", "p", "e">>, <<"v", "i", "d", "e", "o", "/", "m", "p", "e", "g">>>>,
          <<<<".", "m", "p", "g">>, <<"v", "i", "d", "e", "o", "/", "m", "p", "e", "g">>>>,
          <<<<".", "m", "o", "v">>, <<"v", "i", "d", "e", "o", "/", "q", "u", "i", "c", "k", "t", "i", "m", "e">>>>,
          <<<<".", "q", "t">>, <<"v", "i", "d", "e", "o", "/", "q", "u", "i", "c", "k", "t", "i", "m", "e">>>>,
          <<<<".", "w", "e", "b", "m">>, <<"v", "i", "d", "e", "o", "/", "w", "e", "b", "m">>>>,
          <<<<".", "a", "v", "i">>, <<"v", "i", "d", "e", "o", "/", "x", "-", "m", "s", "v", "i", "d", "e", "o">>>>,
          <<<<".", "m", "o", "v", "i", "e">>, <<"v", "i", "d", "e", "o", "/", "x", "-", "s", "g", "i", "-", "m", "o", "v", "i", "e">>>>,
          <<<<".", "a", "2", "l">>, <<"a", "p", "p", "l", "i", "c", "a", "t", "i", "o", "n", "/", "A", "2", "L">>>>,
          <<<<".", "a", "m", "l">>, <<"a", "p", "p", "l", "i", "c", "a", "t", "i", "o", "n", "/", "A", "M", "L">>>>,
          <<<<".", "e", "z">>, <<"a", "p", "p", "l", "i", "c", "a", "t", "i", "o", "n", "/", "a", "n", "d", "r", "e", "w", "-", "i", "n", "s", "e", "t">>>>,
          <<<<".", "a", "n", "x">>, <<"a", "p", "p", "l", "i", "c", "a", "t", "i", "o", "n", "/", "a", "n", "n", "o", "d", "e", "x">>>>,
          <<<<".", "a", "t", "f">>, <<"a", "p", "p", "l", "i", "c", "a", "t", "i", "o", "n", "/", "A", "T", "F">>>>,
          <<<<".", "a", "t", "f", "x">>, <<"a", "p", "p", "l", "i", "c", "a", "t", "i", "o", "n", "/", "A", "T", "F", "X">>>>,
          <<<<".", "a", "t", "o", "m">>, <<"a", "p", "p", "l", "i", "c", "a", "t", "i", "o", "n", "/", "a", "t", "o", "m", "+", "x", "m", "l">>>>,
          <<<<".", "a", "t", "o", "m", "c", "a", "t">>, <<"a", "p", "p", "l", "i", "c", "a", "t", "i", "o", "n", "/", "a", "t", "o", "m", "c", "a", "t", "+", "x", "m", "l">>>>,
          <<<<".", "a", "t", "o", "m", "d", "e", "l", "e", "t", "e", "d">>, <<"a", "p", "p", "l", "i", "c", "a", "t", "i", "o", "n", "/", "a", "t", "o", "m", "d", "e", "l", "e", "t", "e", "d", "+", "x", "m", "l">>>>,
          <<<<".", "a", "t", "o", "m", "s", "r", "v">>, <<"a", "p", "p", "l", "i", "c", "a", "t", "i", "o", "n", "/", "a", "t", "o", "m", "s", "e", "r", "v", "+", "x", "m", "l">>>>,
          <<<<".", "a", "t", "o", "m", "s", "v", "c">>, <<"a", "p", "p", "l", "i", "c", "a", "t", "i", "o", "n", "/", "a", "t", "o", "m", "s", "v", "c", "+", "x", "m", "l">>>>,
          <<<<".", "d", "w", "d">>, <<"a", "p", "p", "l", "i", "c", "a", "t", "i", "o", "n", "/", "a", "t", "s", "c", "-", "d", "w", "d", "+", "x", "m", "l">>>>,
          <<<<".", "h", "e", "l", "d">>, <<"a", "p", "p", "l", "i", "c", "a", "t", "i", "o", "n", "/", "a", "t", "s", "c", "-", "h", "e", "l", "d", "+", "x", "m", "l">>>>,
          <<<<".", "r", "s", "a", "t">>, <<"a", "p", "p", "l", "i", "c", "a", "t", "i", "o", "n", "/", "a", "t", "s", "c", "-", "r", "s", "a", "t", "+", "x", "m", "l">>>>,
          <<<<".", "a", "t", "x", "m", "l">>, <<"a", "p", "p", "l", "i", "c", "a", "t", "i", "o", "n", "/", "A", "T", "X", "M", "L">>>>,
          <<<<".", "a", "p", "x", "m", "l">>, <<"a", "p", "p", "l", "i", "c", "a", "t", "i", "o", "n", "/", "a", "u", "t", "h", "-", "p", "o", "l", "i", "c", "y", "+", "x", "m", "l">>>>,
          <<<<".", "a", "m", "l", "x">>, <<"a", "p", "p", "l", "i", "c", "a", "t", "i", "o", "n", "/", "a", "u", "t", "o", "m", "a", "t", "i", "o", "n", "m", "l", "-", "a", "m", "l", "x", "+", "z", "i", "p">>>>,
          <<<<".", "x", "d", "d">>, <<"a", "p", "p", "l", "i", "c", "a", "t", "i", "o", "n", "/", "b", "a", "c", "n", "e", "t", "-", "x", "d", "d", "+", "z", "i", "p">>>>,
          <<<<".", "l", "i", "n">>, <<"a", "p", "p", "l", "i", "c", "a", "t", "i", "o", "n", "/", "b", "b", "o", "l", "i", "n">>>>,
          <<<<".", "x", "c", "s">>, <<"a", "p", "p", "l", "i", "c", "a", "t", "i", "o", "n", "/", "c", "a", "l", "e", "n", "d", "a", "r", "+", "x", "m", "l">>>>,
          <<<<".", "c", "b", "o", "r">>, <<"a", "p", "p", "l", "i", "c", "a", "t", "i", "o", "n", "/", "c", "b", "o", "r">>>>,
          <<<<".", "c", "3", "e", "x">>, <<"a", "p", "p", "l", "i", "c", "a", "t", "i", "o", "n", "/", "c", "c", "c", "e", "x">>>>,
          <<<<".", "c", "c", "m", "p">>, <<"a", "p", "p", "l", "i", "c", "a", "t", "i", "o", "n", "/", "c", "c", "m", "p", "+", "x", "m", "l">>>>,
          <<<<".", "c", "c", "x", "m", "l">>, <<"a", "p", "p", "l", "i", "c", "a", "t", "i", "o", "n", "/", "c", "c", "x", "m", "l", "+", "x", "m", "l">>>>,
          <<<<".", "c", "d", "f", "x">>, <<"a", "p", "p", "l", "i", "c", "a", "t", "i", "o", "n", "/", "C", "D", "F", "X", "+", "X", "M", "L">>>>,
          <<<<".", "c", "d", "m", "i", "a">>, <<"a", "p", "p", "l", "i", "c", "a", "t", "i", "o", "n", "/", "c", "d", "m", "i", "-", "c", "a", "p", "a", "b", "i", "l", "i", "t", "y">>>>,
          <<<<".", "c", "d", "m", "i", "c">>, <<"a", "p", "p", "l", "i", "c", "a", "t", "i", "o", "n", "/", "c", "d", "m", "i", "-", "c", "o", "n", "t", "a", "i", "n", "e", "r">>>>,
          <<<<".", "c", "d", "m", "i", "d">>, <<"a", "p", "p", "l", "i", "c", "a", "t", "i", "o", "n", "/", "c", "d", "m", "i", "-", "d", "o", "m", "a", "i", "n">>>>,
          <<<<".", "c", "d", "m", "i", "o">>, <<"a", "p", "p", "l", "i", "c", "a", "t", "i", "o", "n", "/", "c", "d", "m", "i", "-", "o", "b", "j", "e", "c", "t">>>>,
          <<<<".", "c", "d", "m", "i", "q">>, <<"a", "p", "p", "l", "i", "c", "a", "t", "i", "o", "n", "/", "c", "d", "m", "i", "-", "q", "u", "e", "u", "e">>>>,
          <<<<".", "c", "e", "a">>, <<"a", "p", "p", "l", "i", "c", "a", "t", "i", "o", "n", "/", "C", "E", "A">>>>,
          <<<<".", "c", "e", "l", "l", "m", "l">>, <<"a", "p", "p", "l", "i", "c", "a", "t", "i", "o", "n", "/", "c", "e", "l", "l", "m", "l", "+", "x", "m", "l">>>>,
          <<<<".", "c", "m", "l">>, <<"c", "h", "e", "m", "i", "c", "a", "l", "/", "x", "-", "c", "m", "l">>>>,
          <<<<".", "1", "c", "l", "r">>, <<"a", "p", "p", "l", "i", "c", "a", "t", "i", "o", "n", "/", "c", "l", "r">>>>,
          <<<<".", "c", "l", "u", "e">>, <<"a", "p", "p", "l", "i", "c", "a", "t", "i", "o", "n", "/", "c", "l", "u", "e", "_", "i", "n", "f", "o", "+", "x", "m", "l">>>>,
          <<<<".", "c", "m", "s", "c">>, <<"a", "p", "p", "l", "i", "c", "a", "t", "i", "o", "n", "/", "c", "m", "s">>>>,
          <<<<".", "c", "p", "l">>, <<"a", "p", "p", "l", "i", "c", "a", "t", "i", "o", "n", "/", "c", "p", "l", "+", "x", "m", "l">>>>,
          <<<<".", "c", "s", "r", "a", "t", "t", "r", "s">>, <<"a", "p", "p", "l", "i", "c", "a", "t", "i", "o", "n", "/", "c", "s", "r", "a", "t", "t", "r", "s">>>>,
          <<<<".", "c", "u">>, <<"a", "p", "p", "l", "i", "c", "a", "t", "i", "o", "n", "/", "c", "u", "-", "s", "e", "e", "m", "e">>>>,
          <<<<".", "c", "w", "l">>, <<"a", "p", "p", "l", "i", "c", "a", "t", "i", "o", "n", "/", "c", "w", "l">>>>,
          <<<<".", "c", "w", "l", ".", "j", "s", "o", "n">>, <<"a", "p", "p", "l", "i", "c", "a", "t", "i", "o", "n", "/", "c", "w", "l", "+", "j", "s", "o", "n">>>>,
          <<<<".", "m", "p", "d">>, <<"a", "p", "p", "l", "i", "c", "a", "t", "i", "o", "n", "/", "d", "a", "s", "h", "+", "x", "m", "l">>>>,
          <<<<".", "m", "p", "d", "d">>, <<"a", "p", "p", "l", "i", "c", "a", "t", "i", "o", "n", "/", "d", "a", "s", "h", "d", "e", "l", "t", "a">>>>,
          <<<<".", "d", "a", "v", "m", "o", "u", "n", "t">>, <<"a", "p", "p", "l", "i", "c", "a", "t", "i", "o", "n", "/", "d", "a", "v", "m", "o", "u", "n", "t", "+", "x", "m", "l">>>>,
          <<<<".", "d", "c", "d">>, <<"a", "p", "p", "l", "i", "c", "a", "t", "i", "o", "n", "/", "D", "C", "D">>>>,
          <<<<".", "d", "c", "m">>, <<"a", "p", "p", "l", "i", "c", "a", "t", "i", "o", "n", "/", "d", "i", "c", "o", "m">>>>,
          <<<<".", "d", "i", "i">>, <<"a", "p", "p", "l", "i", "c", "a", "t", "i", "o", "n", "/", "D", "I", "I">>>>,
          <<<<".", "d", "i", "t">>, <<"a", "p", "p", "l", "i", "c", "a", "t", "i", "o", "n", "/", "D", "I", "T">>>>,
          <<<<".", "x", "m", "l", "s">>, <<"a", "p", "p", "l", "i", "c", "a", "t", "i", "o", "n", "/", "d", "s", "k", "p", "p", "+", "x", "m", "l">>>>,
          <<<<".", "t", "s", "p">>, <<"a", "p", "p", "l", "i", "c", "a", "t", "i", "o", "n", "/", "d", "s", "p", "t", "y", "p", "e">>>>,
          <<<<".", "d", "s", "s", "c">>, <<"a", "p", "p", "l", "i", "c", "a", "t", "i", "o", "n", "/", "d", "s", "s", "c", "+", "d", "e", "r">>>>,
          <<<<".", "x", "d", "s", "s", "c">>, <<"a", "p", "p", "l", "i", "c", "a", "t", "i", "o", "n", "/", "d", "s", "s", "c", "+", "x", "m", "l">>>>,
          <<<<".", "d", "v", "c">>, <<"a", "p", "p", "l", "i", "c", "a", "t", "i", "o", "n", "/", "d", "v", "c", "s">>>>,
          <<<<".", "e", "f", "i">>, <<"a", "p", "p", "l", "i", "c", "a", "t", "i", "o", "n", "/", "e", "f", "i">>>>,
          <<<<".", "e", "m", "m", "a">>, <<"a", "p", "p", "l", "i", "c", "a", "t", "i", "o", "n", "/", "e", "m", "m", "a", "+", "x", "m", "l">>>>,
          <<<<".", "e", "m", "o", "t", "i", "o", "n", "m", "l">>, <<"a", "p", "p", "l", "i", "c", "a", "t", "i", "o", "n", "/", "e", "m", "o", "t", "i", "o", "n", "m", "l", "+", "x", "m", "l">>>>,
          <<<<".", "e", "p", "u", "b">>, <<"a", "p", "p", "l", "i", "c", "a", "t", "i", "o", "n", "/", "e", "p", "u", "b", "+", "z", "i", "p">>>>,
          <<<<".", "e", "x", "i">>, <<"a", "p", "p", "l", "i", "c", "a", "t", "i", "o", "n", "/", "e", "x", "i">>>>,
          <<<<".", "e", "x", "p">>, <<"a", "p", "p", "l", "i", "c", "a", "t", "i", "o", "n", "/", "e", "x", "p", "r", "e", "s", "s">>>>,
          <<<<".", "f", "i", "n", "f">>, <<"a", "p", "p", "l", "i", "c", "a", "t", "i", "o", "n", "/", "f", "a", "s", "t", "i", "n", "f", "o", "s", "e", "t">>>>,
          <<<<".", "f", "d", "f">>, <<"a", "p", "p", "l", "i", "c", "a", "t", "i", "o", "n", "/", "f", "d", "f">>>>,
          <<<<".", "f", "d", "t">>, <<"a", "p", "p", "l", "i", "c", "a", "t", "i", "o", "n", "/", "f", "d", "t", "+", "x", "m", "l">>>>,
          <<<<".", "p", "f", "r">>, <<"a", "p", "p", "l", "i", "c", "a", "t", "i", "o", "n", "/", "f", "o", "n", "t", "-", "t", "d", "p", "f", "r">>>>,
          <<<<".", "s", "p", "l">>, <<"a", "p", "p", "l", "i", "c", "a", "t", "i", "o", "n", "/", "f", "u", "t", "u", "r", "e", "s", "p", "l", "a", "s", "h">>>>,
          <<<<".", "g", "e", "o", "j", "s", "o", "n">>, <<"a", "p", "p", "l", "i", "c", "a", "t", "i", "o", "n", "/", "g", "e", "o", "+", "j", "s", "o", "n">>>>,
          <<<<".", "g", "p", "k", "g">>, <<"a", "p", "p", "l", "i", "c", "a", "t", "i", "o", "n", "/", "g", "e", "o", "p", "a", "c", "k", "a", "g", "e", "+", "s", "q", "l", "i", "t", "e", "3">>>>,
          <<<<".", "g", "l", "b", "i", "n">>, <<"a", "p", "p", "l", "i", "c", "a", "t", "i", "o", "n", "/", "g", "l", "t", "f", "-", "b", "u", "f", "f", "e", "r">>>>,
          <<<<".", "g", "l", "b", "u", "f">>, <<"a", "p", "p", "l", "i", "c", "a", "t", "i", "o", "n", "/", "g", "l", "t", "f", "-", "b", "u", "f", "f", "e", "r">>>>,
          <<<<".", "g", "m", "l">>, <<"a", "p", "p", "l", "i", "c", "a", "t", "i", "o", "n", "/", "g", "m", "l", "+", "x", "m", "l">>>>,
          <<<<".", "g", "z">>, <<"a", "p", "p", "l", "i", "c", "a", "t", "i", "o", "n", "/", "g", "z", "i", "p">>>>,
          <<<<".", "h", "t", "a">>, <<"a", "p", "p", "l", "i", "c", "a", "t", "i", "o", "n", "/", "h", "t", "a">>>>,
          <<<<".", "s", "t", "k">>, <<"a", "p", "p", "l", "i", "c", "a", "t", "i", "o", "n", "/", "h", "y", "p", "e", "r", "s", "t", "u", "d", "i", "o">>>>,
          <<<<".", "i", "n", "k">>, <<"a", "p", "p", "l", "i", "c", "a", "t", "i", "o", "n", "/", "i", "n", "k", "m", "l", "+", "x", "m", "l">>>>,
          <<<<".", "i", "n", "k", "m", "l">>, <<"a", "p", "p", "l", "i", "c", "a", "t", "i", "o", "n", "/", "i", "n", "k", "m", "l", "+", "x", "m", "l">>>>,
          <<<<".", "i", "p", "f", "i", "x">>, <<"a", "p", "p", "l", "i", "c", "a", "t", "i", "o", "n", "/", "i", "p", "f", "i", "x">>>>,
          <<<<".", "i", "t", "s">>, <<"a", "p", "p", "l", "i", "c", "a", "t", "i", "o", "n", "/", "i", "t", "s", "+", "x", "m", "l">>>>,
          <<<<".", "j", "a", "r">>, <<"a", "p", "p", "l", "i", "c", "a", "t", "i", "o", "n", "/", "j", "a", "v", "a", "-", "a", "r", "c", "h", "i", "v", "e">>>>,
          <<<<".", "s", "e", "r">>, <<"a", "p", "p", "l", "i", "c", "a", "t", "i", "o", "n", "/", "j", "a", "v", "a", "-", "s", "e", "r", "i", "a", "l", "i", "z", "e", "d", "-", "o", "b", "j", "e", "c", "t">>>>,
          <<<<".", "c", "l", "a", "s", "s">>, <<"a", "p", "p", "l", "i", "c", "a", "t", "i", "o", "n", "/", "j", "a", "v", "a", "-", "v", "m">>>>,
          <<<<".", "j", "r", "d">>, <<"a", "p", "p", "l", "i", "c", "a", "t", "i", "o", "n", "/", "j", "r", "d", "+", "j", "s", "o", "n">>>>,
          <<<<".", "j", "s", "o", "n", "-", "p", "a", "t", "c", "h">>, <<"a", "p", "p", "l", "i", "c", "a", "t", "i", "o", "n", "/", "j", "s", "o", "n", "-", "p", "a", "t", "c", "h", "+", "j", "s", "o", "n">>>>,
          <<<<".", "j", "s", "o", "n", "l", "d">>, <<"a", "p", "p", "l", "i", "c", "a", "t", "i", "o", "n", "/", "l", "d", "+", "j", "s", "o", "n">>>>,
          <<<<".", "l", "g", "r">>, <<"a", "p", "p", "l", "i", "c", "a", "t", "i", "o", "n", "/", "l", "g", "r", "+", "x", "m", "l">>>>,
          <<<<".", "w", "l", "n", "k">>, <<"a", "p", "p", "l", "i", "c", "a", "t", "i", "o", "n", "/", "l", "i", "n", "k", "-", "f", "o", "r", "m", "a", "t">>>>,
          <<<<".", "l", "o", "s", "t", "x", "m", "l">>, <<"a", "p", "p", "l", "i", "c", "a", "t", "i", "o", "n", "/", "l", "o", "s", "t", "+", "x", "m", "l">>>>,
          <<<<".", "l", "o", "s", "t", "s", "y", "n", "c", "x", "m", "l">>, <<"a", "p", "p", "l", "i", "c", "a", "t", "i", "o", "n", "/", "l", "o", "s", "t", "s", "y", "n", "c", "+", "x", "m", "l">>>>,
          <<<<".", "l", "p", "f">>, <<"a", "p", "p", "l", "i", "c", "a", "t", "i", "o", "n", "/", "l", "p", "f", "+", "z", "i", "p">>>>,
          <<<<".", "l", "x", "f">>, <<"a", "p", "p", "l", "i", "c", "a", "t", "i", "o", "n", "/", "L", "X", "F">>>>,
          <<<<".", "m", "3", "g">>, <<"a", "p", "p", "l", "i", "c", "a", "t", "i", "o", "n", "/", "m", "3", "g">>>>,
          <<<<".", "h", "q", "x">>, <<"a", "p", "p", "l", "i", "c", "a", "t", "i", "o", "n", "/", "m", "a", "c", "-", "b", "i", "n", "h", "e", "x", "4", "0">>>>,
          <<<<".", "c", "p", "t">>, <<"i", "m", "a", "g", "e", "/", "x", "-", "c", "o", "r", "e", "l", "p", "h", "o", "t", "o", "p", "a", "i", "n", "t">>>>,
          <<<<".", "m", "a", "d", "s">>, <<"a", "p", "p", "l", "i", "c", "a", "t", "i", "o", "n", "/", "m", "a", "d", "s", "+", "x", "m", "l">>>>,
          <<<<".", "m", "r", "c">>, <<"a", "p", "p", "l", "i", "c", "a", "t", "i", "o", "n", "/", "m", "a", "r", "c">>>>,
          <<<<".", "m", "r", "c", "x">>, <<"a", "p", "p", "l", "i", "c", "a", "t", "i", "o", "n", "/", "m", "a", "r", "c", "x", "m", "l", "+", "x", "m", "l">>>>,
          <<<<".", "m", "a">>, <<"a", "p", "p", "l", "i", "c", "a", "t", "i", "o", "n", "/", "m", "a", "t", "h", "e", "m", "a", "t", "i", "c", "a">>>>,
          <<<<".", "m", "b">>, <<"a", "p", "p", "l", "i", "c", "a", "t", "i", "o", "n", "/", "m", "a", "t", "h", "e", "m", "a", "t", "i", "c", "a">>>>,
          <<<<".", "m", "m", "l">>, <<"a", "p", "p", "l", "i", "c", "a", "t", "i", "o", "n", "/", "m", "a", "t", "h", "m", "l", "+", "x", "m", "l">>>>,
          <<<<".", "m", "b", "o", "x">>, <<"a", "p", "p", "l", "i", "c", "a", "t", "i", "o", "n", "/", "m", "b", "o", "x">>>>,
          <<<<".", "m", "e", "t", "a", "4">>, <<"a", "p", "p", "l", "i", "c", "a", "t", "i", "o", "n", "/", "m", "e", "t", "a", "l", "i", "n", "k", "4", "+", "x", "m", "l">>>>,
          <<<<".", "m", "e", "t", "s">>, <<"a", "p", "p", "l", "i", "c", "a", "t", "i", "o", "n", "/", "m", "e", "t", "s", "+", "x", "m", "l">>>>,
          <<<<".", "m", "f", "4">>, <<"a", "p", "p", "l", "i", "c", "a", "t", "i", "o", "n", "/", "M", "F", "4">>>>,
          <<<<".", "m", "a", "e", "i">>, <<"a", "p", "p", "l", "i", "c", "a", "t", "i", "o", "n", "/", "m", "m", "t", "-", "a", "e", "i", "+", "x", "m", "l">>>>,
          <<<<".", "m", "u", "s", "d">>, <<"a", "p", "p", "l", "i", "c", "a", "t", "i", "o", "n", "/", "m", "m", "t", "-", "u", "s", "d", "+", "x", "m", "l">>>>,
          <<<<".", "m", "o", "d", "s">>, <<"a", "p", "p", "l", "i", "c", "a", "t", "i", "o", "n", "/", "m", "o", "d", "s", "+", "x", "m", "l">>>>,
          <<<<".", "m", "2", "1">>, <<"a", "p", "p", "l", "i", "c", "a", "t", "i", "o", "n", "/", "m", "p", "2", "1">>>>,
          <<<<".", "m", "p", "2", "1">>, <<"a", "p", "p", "l", "i", "c", "a", "t", "i", "o", "n", "/", "m", "p", "2", "1">>>>,
          <<<<".", "m", "d", "b">>, <<"a", "p", "p", "l", "i", "c", "a", "t", "i", "o", "n", "/", "m", "s", "a", "c", "c", "e", "s", "s">>>>,
          <<<<".", "m", "x", "f">>, <<"a", "p", "p", "l", "i", "c", "a", "t", "i", "o", "n", "/", "m", "x", "f">>>>,
          <<<<".", "o", "r", "q">>, <<"a", "p", "p", "l", "i", "c", "a", "t", "i", "o", "n", "/", "o", "c", "s", "p", "-", "r", "e", "q", "u", "e", "s", "t">>>>,
          <<<<".", "o", "r", "s">>, <<"a", "p", "p", "l", "i", "c", "a", "t", "i", "o", "n", "/", "o", "c", "s", "p", "-", "r", "e", "s", "p", "o", "n", "s", "e">>>>,
          <<<<".", "d", "e", "p", "l", "o", "y">>, <<"a", "p", "p", "l", "i", "c", "a", "t", "i", "o", "n", "/", "o", "c", "t", "e", "t", "-", "s", "t", "r", "e", "a", "m">>>>,
          <<<<".", "m", "s", "u">>, <<"a", "p", "p", "l", "i", "c", "a", "t", "i", "o", "n", "/", "o", "c", "t", "e", "t", "-", "s", "t", "r", "e", "a", "m">>>>,
          <<<<".", "m", "s", "p">>, <<"a", "p", "p", "l", "i", "c", "a", "t", "i", "o", "n", "/", "o", "c", "t", "e", "t", "-", "s", "t", "r", "e", "a", "m">>>>,
          <<<<".", "o", "d", "x">>, <<"a", "p", "p", "l", "i", "c", "a", "t", "i", "o", "n", "/", "O", "D", "X">>>>,
          <<<<".", "o", "p", "f">>, <<"a", "p", "p", "l", "i", "c", "a", "t", "i", "o", "n", "/", "o", "e", "b", "p", "s", "-", "p", "a", "c", "k", "a", "g", "e", "+", "x", "m", "l">>>>,
          <<<<".", "o", "g", "x">>, <<"a", "p", "p", "l", "i", "c", "a", "t", "i", "o", "n", "/", "o", "g", "g">>>>,
          <<<<".", "o", "n", "e">>, <<"a", "p", "p", "l", "i", "c", "a", "t", "i", "o", "n", "/", "o", "n", "e", "n", "o", "t", "e">>>>,
          <<<<".", "o", "n", "e", "t", "o", "c", "2">>, <<"a", "p", "p", "l", "i", "c", "a", "t", "i", "o", "n", "/", "o", "n", "e", "n", "o", "t", "e">>>>,
          <<<<".", "o", "n", "e", "t", "m", "p">>, <<"a", "p", "p", "l", "i", "c", "a", "t", "i", "o", "n", "/", "o", "n", "e", "n", "o", "t", "e">>>>,
          <<<<".", "o", "n", "e", "p", "k", "g">>, <<"a", "p", "p", "l", "i", "c", "a", "t", "i", "o", "n", "/", "o", "n", "e", "n", "o", "t", "e">>>>,
          <<<<".", "o", "x", "p", "s">>, <<"a", "p", "p", "l", "i", "c", "a", "t", "i", "o", "n", "/", "o", "x", "p", "s">>>>,
          <<<<".", "p", "2", "1">>, <<"a", "p", "p", "l", "i", "c", "a", "t", "i", "o", "n", "/", "p", "2", "1">>>>,
          <<<<".", "s", "t", "p", "n", "c">>, <<"a", "p", "p", "l", "i", "c", "a", "t", "i", "o", "n", "/", "p", "2", "1">>>>,
          <<<<".", "2", "1", "0">>, <<"a", "p", "p", "l", "i", "c", "a", "t", "i", "o", "n", "/", "p", "2", "1">>>>,
          <<<<".", "i", "f", "c">>, <<"a", "p", "p", "l", "i", "c", "a", "t", "i", "o", "n", "/", "p", "2", "1">>>>,
          <<<<".", "r", "e", "l", "o">>, <<"a", "p", "p", "l", "i", "c", "a", "t", "i", "o", "n", "/", "p", "2", "p", "-", "o", "v", "e", "r", "l", "a", "y", "+", "x", "m", "l">>>>,
          <<<<".", "p", "d", "x">>, <<"a", "p", "p", "l", "i", "c", "a", "t", "i", "o", "n", "/", "P", "D", "X">>>>,
          <<<<".", "p", "e", "m">>, <<"a", "p", "p", "l", "i", "c", "a", "t", "i", "o", "n", "/", "p", "e", "m", "-", "c", "e", "r", "t", "i", "f", "i", "c", "a", "t", "e", "-", "c", "h", "a", "i", "n">>>>,
          <<<<".", "p", "g", "p">>, <<"a", "p", "p", "l", "i", "c", "a", "t", "i", "o", "n", "/", "p", "g", "p", "-", "e", "n", "c", "r", "y", "p", "t", "e", "d">>>>,
          <<<<".", "a", "s", "c">>, <<"a", "p", "p", "l", "i", "c", "a", "t", "i", "o", "n", "/", "p", "g", "p", "-", "k", "e", "y", "s">>>>,
          <<<<".", "k", "e", "y">>, <<"a", "p", "p", "l", "i", "c", "a", "t", "i", "o", "n", "/", "p", "g", "p", "-", "k", "e", "y", "s">>>>,
          <<<<".", "s", "i", "g">>, <<"a", "p", "p", "l", "i", "c", "a", "t", "i", "o", "n", "/", "p", "g", "p", "-", "s", "i", "g", "n", "a", "t", "u", "r", "e">>>>,
          <<<<".", "p", "r", "f">>, <<"a", "p", "p", "l", "i", "c", "a", "t", "i", "o", "n", "/", "p", "i", "c", "s", "-", "r", "u", "l", "e", "s">>>>,
          <<<<".", "p", "1", "0">>, <<"a", "p", "p", "l", "i", "c", "a", "t", "i", "o", "n", "/", "p", "k", "c", "s", "1", "0">>>>,
          <<<<".", "p", "7", "m">>, <<"a", "p", "p", "l", "i", "c", "a", "t", "i", "o", "n", "/", "p", "k", "c", "s", "7", "-", "m", "i", "m", "e">>>>,
          <<<<".", "p", "7", "z">>, <<"a", "p", "p", "l", "i", "c", "a", "t", "i", "o", "n", "/", "p", "k", "c", "s", "7", "-", "m", "i", "m", "e">>>>,
          <<<<".", "p", "7", "s">>, <<"a", "p", "p", "l", "i", "c", "a", "t", "i", "o", "n", "/", "p", "k", "c", "s", "7", "-", "s", "i", "g", "n", "a", "t", "u", "r", "e">>>>,
          <<<<".", "p", "8">>, <<"a", "p", "p", "l", "i", "c", "a", "t", "i", "o", "n", "/", "p", "k", "c", "s", "8">>>>,
          <<<<".", "p", "8", "e">>, <<"a", "p", "p", "l", "i", "c", "a", "t", "i", "o", "n", "/", "p", "k", "c", "s", "8", "-", "e", "n", "c", "r", "y", "p", "t", "e", "d">>>>,
          <<<<".", "a", "c">>, <<"a", "p", "p", "l", "i", "c", "a", "t", "i", "o", "n", "/", "p", "k", "i", "x", "-", "a", "t", "t", "r", "-", "c", "e", "r", "t">>>>,
          <<<<".", "c", "e", "r">>, <<"a", "p", "p", "l", "i", "c", "a", "t", "i", "o", "n", "/", "p", "k", "i", "x", "-", "c", "e", "r", "t">>>>,
          <<<<".", "c", "r", "l">>, <<"a", "p", "p", "l", "i", "c", "a", "t", "i", "o", "n", "/", "p", "k", "i", "x", "-", "c", "r", "l">>>>,
          <<<<".", "p", "k", "i", "p", "a", "t", "h">>, <<"a", "p", "p", "l", "i", "c", "a", "t", "i", "o", "n", "/", "p", "k", "i", "x", "-", "p", "k", "i", "p", "a", "t", "h">>>>,
          <<<<".", "p", "k", "i">>, <<"a", "p", "p", "l", "i", "c", "a", "t", "i", "o", "n", "/", "p", "k", "i", "x", "c", "m", "p">>>>,
          <<<<".", "e", "p", "s", "i">>, <<"a", "p", "p", "l", "i", "c", "a", "t", "i", "o", "n", "/", "p", "o", "s", "t", "s", "c", "r", "i", "p", "t">>>>,
          <<<<".", "e", "p", "s", "f">>, <<"a", "p", "p", "l", "i", "c", "a", "t", "i", "o", "n", "/", "p", "o", "s", "t", "s", "c", "r", "i", "p", "t">>>>,
          <<<<".", "e", "p", "s", "2">>, <<"a", "p", "p", "l", "i", "c", "a", "t", "i", "o", "n", "/", "p", "o", "s", "t", "s", "c", "r", "i", "p", "t">>>>,
          <<<<".", "e", "p", "s", "3">>, <<"a", "p", "p", "l", "i", "c", "a", "t", "i", "o", "n", "/", "p", "o", "s", "t", "s", "c", "r", "i", "p", "t">>>>,
          <<<<".", "p", "r", "o", "v", "x">>, <<"a", "p", "p", "l", "i", "c", "a", "t", "i", "o", "n", "/", "p", "r", "o", "v", "e", "n", "a", "n", "c", "e", "+", "x", "m", "l">>>>,
          <<<<".", "c", "w">>, <<"a", "p", "p", "l", "i", "c", "a", "t", "i", "o", "n", "/", "p", "r", "s", ".", "c", "w", "w">>>>,
          <<<<".", "c", "w", "w">>, <<"a", "p", "p", "l", "i", "c", "a", "t", "i", "o", "n", "/", "p", "r", "s", ".", "c", "w", "w">>>>,
          <<<<".", "h", "p", "u", "b">>, <<"a", "p", "p", "l", "i", "c", "a", "t", "i", "o", "n", "/", "p", "r", "s", ".", "h", "p", "u", "b", "+", "z", "i", "p">>>>,
          <<<<".", "r", "n", "d">>, <<"a", "p", "p", "l", "i", "c", "a", "t", "i", "o", "n", "/", "p", "r", "s", ".", "n", "p", "r", "e", "n", "d">>>>,
          <<<<".", "r", "c", "t">>, <<"a", "p", "p", "l", "i", "c", "a", "t", "i", "o", "n", "/", "p", "r", "s", ".", "n", "p", "r", "e", "n", "d">>>>,
          <<<<".", "r", "d", "f", "-", "c", "r", "y", "p", "t">>, <<"a", "p", "p", "l", "i", "c", "a", "t", "i", "o", "n", "/", "p", "r", "s", ".", "r", "d", "f", "-", "x", "m", "l", "-", "c", "r", "y", "p", "t">>>>,
          <<<<".", "x", "s", "f">>, <<"a", "p", "p", "l", "i", "c", "a", "t", "i", "o", "n", "/", "p", "r", "s", ".", "x", "s", "f", "+", "x", "m", "l">>>>,
          <<<<".", "p", "s", "k", "c", "x", "m", "l">>, <<"a", "p", "p", "l", "i", "c", "a", "t", "i", "o", "n", "/", "p", "s", "k", "c", "+", "x", "m", "l">>>>,
          <<<<".", "r", "i", "f">>, <<"a", "p", "p", "l", "i", "c", "a", "t", "i", "o", "n", "/", "r", "e", "g", "i", "n", "f", "o", "+", "x", "m", "l">>>>,
          <<<<".", "r", "n", "c">>, <<"a", "p", "p", "l", "i", "c", "a", "t", "i", "o", "n", "/", "r", "e", "l", "a", "x", "-", "n", "g", "-", "c", "o", "m", "p", "a", "c", "t", "-", "s", "y", "n", "t", "a", "x">>>>,
          <<<<".", "r", "l">>, <<"a", "p", "p", "l", "i", "c", "a", "t", "i", "o", "n", "/", "r", "e", "s", "o", "u", "r", "c", "e", "-", "l", "i", "s", "t", "s", "+", "x", "m", "l">>>>,
          <<<<".", "r", "l", "d">>, <<"a", "p", "p", "l", "i", "c", "a", "t", "i", "o", "n", "/", "r", "e", "s", "o", "u", "r", "c", "e", "-", "l", "i", "s", "t", "s", "-", "d", "i", "f", "f", "+", "x", "m", "l">>>>,
          <<<<".", "r", "f", "c", "x", "m", "l">>, <<"a", "p", "p", "l", "i", "c", "a", "t", "i", "o", "n", "/", "r", "f", "c", "+", "x", "m", "l">>>>,
          <<<<".", "r", "s">>, <<"a", "p", "p", "l", "i", "c", "a", "t", "i", "o", "n", "/", "r", "l", "s", "-", "s", "e", "r", "v", "i", "c", "e", "s", "+", "x", "m", "l">>>>,
          <<<<".", "r", "a", "p", "d">>, <<"a", "p", "p", "l", "i", "c", "a", "t", "i", "o", "n", "/", "r", "o", "u", "t", "e", "-", "a", "p", "d", "+", "x", "m", "l">>>>,
          <<<<".", "s", "l", "s">>, <<"a", "p", "p", "l", "i", "c", "a", "t", "i", "o", "n", "/", "r", "o", "u", "t", "e", "-", "s", "-", "t", "s", "i", "d", "+", "x", "m", "l">>>>,
          <<<<".", "r", "u", "s", "d">>, <<"a", "p", "p", "l", "i", "c", "a", "t", "i", "o", "n", "/", "r", "o", "u", "t", "e", "-", "u", "s", "d", "+", "x", "m", "l">>>>,
          <<<<".", "g", "b", "r">>, <<"a", "p", "p", "l", "i", "c", "a", "t", "i", "o", "n", "/", "r", "p", "k", "i", "-", "g", "h", "o", "s", "t", "b", "u", "s", "t", "e", "r", "s">>>>,
          <<<<".", "m", "f", "t">>, <<"a", "p", "p", "l", "i", "c", "a", "t", "i", "o", "n", "/", "r", "p", "k", "i", "-", "m", "a", "n", "i", "f", "e", "s", "t">>>>,
          <<<<".", "r", "o", "a">>, <<"a", "p", "p", "l", "i", "c", "a", "t", "i", "o", "n", "/", "r", "p", "k", "i", "-", "r", "o", "a">>>>,
          <<<<".", "r", "t", "f">>, <<"a", "p", "p", "l", "i", "c", "a", "t", "i", "o", "n", "/", "r", "t", "f">>>>,
          <<<<".", "s", "a", "r", "i", "f">>, <<"a", "p", "p", "l", "i", "c", "a", "t", "i", "o", "n", "/", "s", "a", "r", "i", "f", "+", "j", "s", "o", "n">>>>,
          <<<<".", "s", "a", "r", "i", "f", ".", "j", "s", "o", "n">>, <<"a", "p", "p", "l", "i", "c", "a", "t", "i", "o", "n", "/", "s", "a", "r", "i", "f", "+", "j", "s", "o", "n">>>>,
          <<<<".", "s", "a", "r", "i", "f", "-", "e", "x", "t", "e", "r", "n", "a", "l", "-", "p", "r", "o", "p", "e", "r", "t", "i", "e", "s">>, <<"a", "p", "p", "l", "i", "c", "a", "t", "i", "o", "n", "/", "s", "a", "r", "i", "f", "-", "e", "x", "t", "e", "r", "n", "a", "l", "-", "p", "r", "o", "p", "e", "r", "t", "i", "e", "s", "+", "j", "s", "o", "n">>>>,
          <<<<".", "s", "a", "r", "i", "f", "-", "e", "x", "t", "e", "r", "n", "a", "l", "-", "p", "r", "o", "p", "e", "r", "t", "i", "e", "s", ".", "j", "s", "o", "n">>, <<"a", "p", "p", "l", "i", "c", "a", "t", "i", "o", "n", "/", "s", "a", "r", "i", "f", "-", "e", "x", "t", "e", "r", "n", "a", "l", "-", "p", "r", "o", "p", "e", "r", "t", "i", "e", "s", "+", "j", "s", "o", "n">>>>,
          <<<<".", "s", "c", "i", "m">>, <<"a", "p", "p", "l", "i", "c", "a", "t", "i", "o", "n", "/", "s", "c", "i", "m", "+", "j", "s", "o", "n">>>>,
          <<<<".", "s", "c", "q">>, <<"a", "p", "p", "l", "i", "c", "a", "t", "i", "o", "n", "/", "s", "c", "v", "p", "-", "c", "v", "-", "r", "e", "q", "u", "e", "s", "t">>>>,
          <<<<".", "s", "c", "s">>, <<"a", "p", "p", "l", "i", "c", "a", "t", "i", "o", "n", "/", "s", "c", "v", "p", "-", "c", "v", "-", "r", "e", "s", "p", "o", "n", "s", "e">>>>,
          <<<<".", "s", "p", "q">>, <<"a", "p", "p", "l", "i", "c", "a", "t", "i", "o", "n", "/", "s", "c", "v", "p", "-", "v", "p", "-", "r", "e", "q", "u", "e", "s", "t">>>>,
          <<<<".", "s", "p", "p">>, <<"a", "p", "p", "l", "i", "c", "a", "t", "i", "o", "n", "/", "s", "c", "v", "p", "-", "v", "p", "-", "r", "e", "s", "p", "o", "n", "s", "e">>>>,
          <<<<".", "s", "d", "p">>, <<"a", "p", "p", "l", "i", "c", "a", "t", "i", "o", "n", "/", "s", "d", "p">>>>,
          <<<<".", "s", "e", "n", "m", "l", "c">>, <<"a", "p", "p", "l", "i", "c", "a", "t", "i", "o", "n", "/", "s", "e", "n", "m", "l", "+", "c", "b", "o", "r">>>>,
          <<<<".", "s", "e", "n", "m", "l">>, <<"a", "p", "p", "l", "i", "c", "a", "t", "i", "o", "n", "/", "s", "e", "n", "m", "l", "+", "j", "s", "o", "n">>>>,
          <<<<".", "s", "e", "n", "m", "l", "x">>, <<"a", "p", "p", "l", "i", "c", "a", "t", "i", "o", "n", "/", "s", "e", "n", "m", "l", "+", "x", "m", "l">>>>,
          <<<<".", "s", "e", "n", "m", "l", "-", "e", "t", "c", "h", "c">>, <<"a", "p", "p", "l", "i", "c", "a", "t", "i", "o", "n", "/", "s", "e", "n", "m", "l", "-", "e", "t", "c", "h", "+", "c", "b", "o", "r">>>>,
          <<<<".", "s", "e", "n", "m", "l", "-", "e", "t", "c", "h", "j">>, <<"a", "p", "p", "l", "i", "c", "a", "t", "i", "o", "n", "/", "s", "e", "n", "m", "l", "-", "e", "t", "c", "h", "+", "j", "s", "o", "n">>>>,
          <<<<".", "s", "e", "n", "m", "l", "e">>, <<"a", "p", "p", "l", "i", "c", "a", "t", "i", "o", "n", "/", "s", "e", "n", "m", "l", "-", "e", "x", "i">>>>,
          <<<<".", "s", "e", "n", "s", "m", "l", "c">>, <<"a", "p", "p", "l", "i", "c", "a", "t", "i", "o", "n", "/", "s", "e", "n", "s", "m", "l", "+", "c", "b", "o", "r">>>>,
          <<<<".", "s", "e", "n", "s", "m", "l">>, <<"a", "p", "p", "l", "i", "c", "a", "t", "i", "o", "n", "/", "s", "e", "n", "s", "m", "l", "+", "j", "s", "o", "n">>>>,
          <<<<".", "s", "e", "n", "s", "m", "l", "x">>, <<"a", "p", "p", "l", "i", "c", "a", "t", "i", "o", "n", "/", "s", "e", "n", "s", "m", "l", "+", "x", "m", "l">>>>,
          <<<<".", "s", "e", "n", "s", "m", "l", "e">>, <<"a", "p", "p", "l", "i", "c", "a", "t", "i", "o", "n", "/", "s", "e", "n", "s", "m", "l", "-", "e", "x", "i">>>>,
          <<<<".", "s", "o", "c">>, <<"a", "p", "p", "l", "i", "c", "a", "t", "i", "o", "n", "/", "s", "g", "m", "l", "-", "o", "p", "e", "n", "-", "c", "a", "t", "a", "l", "o", "g">>>>,
          <<<<".", "s", "h", "f">>, <<"a", "p", "p", "l", "i", "c", "a", "t", "i", "o", "n", "/", "s", "h", "f", "+", "x", "m", "l">>>>,
          <<<<".", "s", "i", "v">>, <<"a", "p", "p", "l", "i", "c", "a", "t", "i", "o", "n", "/", "s", "i", "e", "v", "e">>>>,
          <<<<".", "s", "i", "e", "v", "e">>, <<"a", "p", "p", "l", "i", "c", "a", "t", "i", "o", "n", "/", "s", "i", "e", "v", "e">>>>,
          <<<<".", "c", "l">>, <<"a", "p", "p", "l", "i", "c", "a", "t", "i", "o", "n", "/", "s", "i", "m", "p", "l", "e", "-", "f", "i", "l", "t", "e", "r", "+", "x", "m", "l">>>>,
          <<<<".", "s", "m", "i", "l">>, <<"a", "p", "p", "l", "i", "c", "a", "t", "i", "o", "n", "/", "s", "m", "i", "l", "+", "x", "m", "l">>>>,
          <<<<".", "s", "m", "i">>, <<"a", "p", "p", "l", "i", "c", "a", "t", "i", "o", "n", "/", "s", "m", "i", "l", "+", "x", "m", "l">>>>,
          <<<<".", "s", "m", "l">>, <<"a", "p", "p", "l", "i", "c", "a", "t", "i", "o", "n", "/", "s", "m", "i", "l", "+", "x", "m", "l">>>>,
          <<<<".", "r", "q">>, <<"a", "p", "p", "l", "i", "c", "a", "t", "i", "o", "n", "/", "s", "p", "a", "r", "q", "l", "-", "q", "u", "e", "r", "y">>>>,
          <<<<".", "s", "r", "x">>, <<"a", "p", "p", "l", "i", "c", "a", "t", "i", "o", "n", "/", "s", "p", "a", "r", "q", "l", "-", "r", "e", "s", "u", "l", "t", "s", "+", "x", "m", "l">>>>,
          <<<<".", "s", "p", "d", "x", ".", "j", "s", "o", "n">>, <<"a", "p", "p", "l", "i", "c", "a", "t", "i", "o", "n", "/", "s", "p", "d", "x", "+", "j", "s", "o", "n">>>>,
          <<<<".", "s", "q", "l">>, <<"a", "p", "p", "l", "i", "c", "a", "t", "i", "o", "n", "/", "s", "q", "l">>>>,
          <<<<".", "g", "r", "a", "m">>, <<"a", "p", "p", "l", "i", "c", "a", "t", "i", "o", "n", "/", "s", "r", "g", "s">>>>,
          <<<<".", "g", "r", "x", "m", "l">>, <<"a", "p", "p", "l", "i", "c", "a", "t", "i", "o", "n", "/", "s", "r", "g", "s", "+", "x", "m", "l">>>>,
          <<<<".", "s", "r", "u">>, <<"a", "p", "p", "l", "i", "c", "a", "t", "i", "o", "n", "/", "s", "r", "u", "+", "x", "m", "l">>>>,
          <<<<".", "s", "s", "m", "l">>, <<"a", "p", "p", "l", "i", "c", "a", "t", "i", "o", "n", "/", "s", "s", "m", "l", "+", "x", "m", "l">>>>,
          <<<<".", "s", "t", "i", "x">>, <<"a", "p", "p", "l", "i", "c", "a", "t", "i", "o", "n", "/", "s", "t", "i", "x", "+", "j", "s", "o", "n">>>>,
          <<<<".", "c", "o", "s", "w", "i", "d">>, <<"a", "p", "p", "l", "i", "c", "a", "t", "i", "o", "n", "/", "s", "w", "i", "d", "+", "c", "b", "o", "r">>>>,
          <<<<".", "s", "w", "i", "d", "t", "a", "g">>, <<"a", "p", "p", "l", "i", "c", "a", "t", "i", "o", "n", "/", "s", "w", "i", "d", "+", "x", "m", "l">>>>,
          <<<<".", "t", "a", "u">>, <<"a", "p", "p", "l", "i", "c", "a", "t", "i", "o", "n", "/", "t", "a", "m", "p", "-", "a", "p", "e", "x", "-", "u", "p", "d", "a", "t", "e">>>>,
          <<<<".", "a", "u", "c">>, <<"a", "p", "p", "l", "i", "c", "a", "t", "i", "o", "n", "/", "t", "a", "m", "p", "-", "a", "p", "e", "x", "-", "u", "p", "d", "a", "t", "e", "-", "c", "o", "n", "f", "i", "r", "m">>>>,
          <<<<".", "t", "c", "u">>, <<"a", "p", "p", "l", "i", "c", "a", "t", "i", "o", "n", "/", "t", "a", "m", "p", "-", "c", "o", "m", "m", "u", "n", "i", "t", "y", "-", "u", "p", "d", "a", "t", "e">>>>,
          <<<<".", "c", "u", "c">>, <<"a", "p", "p", "l", "i", "c", "a", "t", "i", "o", "n", "/", "t", "a", "m", "p", "-", "c", "o", "m", "m", "u", "n", "i", "t", "y", "-", "u", "p", "d", "a", "t", "e", "-", "c", "o", "n", "f", "i", "r", "m">>>>,
          <<<<".", "t", "e", "r">>, <<"a", "p", "p", "l", "i", "c", "a", "t", "i", "o", "n", "/", "t", "a", "m", "p", "-", "e", "r", "r", "o", "r">>>>,
          <<<<".", "t", "s", "a">>, <<"a", "p", "p", "l", "i", "c", "a", "t", "i", "o", "n", "/", "t", "a", "m", "p", "-", "s", "e", "q", "u", "e", "n", "c", "e", "-", "a", "d", "j", "u", "s", "t">>>>,
          <<<<".", "s", "a", "c">>, <<"a", "p", "p", "l", "i", "c", "a", "t", "i", "o", "n", "/", "t", "a", "m", "p", "-", "s", "e", "q", "u", "e", "n", "c", "e", "-", "a", "d", "j", "u", "s", "t", "-", "c", "o", "n", "f", "i", "r", "m">>>>,
          <<<<".", "t", "u", "r">>, <<"a", "p", "p", "l", "i", "c", "a", "t", "i", "o", "n", "/", "t", "a", "m", "p", "-", "u", "p", "d", "a", "t", "e">>>>,
          <<<<".", "t", "u", "c">>, <<"a", "p", "p", "l", "i", "c", "a", "t", "i", "o", "n", "/", "t", "a", "m", "p", "-", "u", "p", "d", "a", "t", "e", "-", "c", "o", "n", "f", "i", "r", "m">>>>,
          <<<<".", "j", "s", "o", "n", "t", "d">>, <<"a", "p", "p", "l", "i", "c", "a", "t", "i", "o", "n", "/", "t", "d", "+", "j", "s", "o", "n">>>>,
          <<<<".", "t", "e", "i">>, <<"a", "p", "p", "l", "i", "c", "a", "t", "i", "o", "n", "/", "t", "e", "i", "+", "x", "m", "l">>>>,
          <<<<".", "t", "e", "i", "C", "o", "r", "p", "u", "s">>, <<"a", "p", "p", "l", "i", "c", "a", "t", "i", "o", "n", "/", "t", "e", "i", "+", "x", "m", "l">>>>,
          <<<<".", "o", "d", "d">>, <<"a", "p", "p", "l", "i", "c", "a", "t", "i", "o", "n", "/", "t", "e", "i", "+", "x", "m", "l">>>>,
          <<<<".", "t", "f", "i">>, <<"a", "p", "p", "l", "i", "c", "a", "t", "i", "o", "n", "/", "t", "h", "r", "a", "u", "d", "+", "x", "m", "l">>>>,
          <<<<".", "t", "s", "q">>, <<"a", "p", "p", "l", "i", "c", "a", "t", "i", "o", "n", "/", "t", "i", "m", "e", "s", "t", "a", "m", "p", "-", "q", "u", "e", "r", "y">>>>,
          <<<<".", "t", "s", "r">>, <<"a", "p", "p", "l", "i", "c", "a", "t", "i", "o", "n", "/", "t", "i", "m", "e", "s", "t", "a", "m", "p", "-", "r", "e", "p", "l", "y">>>>,
          <<<<".", "t", "s", "d">>, <<"a", "p", "p", "l", "i", "c", "a", "t", "i", "o", "n", "/", "t", "i", "m", "e", "s", "t", "a", "m", "p", "e", "d", "-", "d", "a", "t", "a">>>>,
          <<<<".", "t", "m", ".", "j", "s", "o", "n", "l", "d">>, <<"a", "p", "p", "l", "i", "c", "a", "t", "i", "o", "n", "/", "t", "m", "+", "j", "s", "o", "n">>>>,
          <<<<".", "t", "m", ".", "j", "s", "o", "n">>, <<"a", "p", "p", "l", "i", "c", "a", "t", "i", "o", "n", "/", "t", "m", "+", "j", "s", "o", "n">>>>,
          <<<<".", "j", "s", "o", "n", "t", "m">>, <<"a", "p", "p", "l", "i", "c", "a", "t", "i", "o", "n", "/", "t", "m", "+", "j", "s", "o", "n">>>>,
          <<<<".", "t", "t", "m", "l">>, <<"a", "p", "p", "l", "i", "c", "a", "t", "i", "o", "n", "/", "t", "t", "m", "l", "+", "x", "m", "l">>>>,
          <<<<".", "g", "s", "h", "e", "e", "t">>, <<"a", "p", "p", "l", "i", "c", "a", "t", "i", "o", "n", "/", "u", "r", "c", "-", "g", "r", "p", "s", "h", "e", "e", "t", "+", "x", "m", "l">>>>,
          <<<<".", "r", "s", "h", "e", "e", "t">>, <<"a", "p", "p", "l", "i", "c", "a", "t", "i", "o", "n", "/", "u", "r", "c", "-", "r", "e", "s", "s", "h", "e", "e", "t", "+", "x", "m", "l">>>>,
          <<<<".", "t", "d">>, <<"a", "p", "p", "l", "i", "c", "a", "t", "i", "o", "n", "/", "u", "r", "c", "-", "t", "a", "r", "g", "e", "t", "d", "e", "s", "c", "+", "x", "m", "l">>>>,
          <<<<".", "u", "i", "s">>, <<"a", "p", "p", "l", "i", "c", "a", "t", "i", "o", "n", "/", "u", "r", "c", "-", "u", "i", "s", "o", "c", "k", "e", "t", "d", "e", "s", "c", "+", "x", "m", "l">>>>,
          <<<<".", "1", "k", "m">>, <<"a", "p", "p", "l", "i", "c", "a", "t", "i", "o", "n", "/", "v", "n", "d", ".", "1", "0", "0", "0", "m", "i", "n", "d", "s", ".", "d", "e", "c", "i", "s", "i", "o", "n", "-", "m", "o", "d", "e", "l", "+", "x", "m", "l">>>>,
          <<<<".", "p", "l", "b">>, <<"a", "p", "p", "l", "i", "c", "a", "t", "i", "o", "n", "/", "v", "n", "d", ".", "3", "g", "p", "p", ".", "p", "i", "c", "-", "b", "w", "-", "l", "a", "r", "g", "e">>>>,
          <<<<".", "p", "s", "b">>, <<"a", "p", "p", "l", "i", "c", "a", "t", "i", "o", "n", "/", "v", "n", "d", ".", "3", "g", "p", "p", ".", "p", "i", "c", "-", "b", "w", "-", "s", "m", "a", "l", "l">>>>,
          <<<<".", "p", "v", "b">>, <<"a", "p", "p", "l", "i", "c", "a", "t", "i", "o", "n", "/", "v", "n", "d", ".", "3", "g", "p", "p", ".", "p", "i", "c", "-", "b", "w", "-", "v", "a", "r">>>>,
          <<<<".", "s", "m", "s">>, <<"a", "p", "p", "l", "i", "c", "a", "t", "i", "o", "n", "/", "v", "n", "d", ".", "3", "g", "p", "p", "2", ".", "s", "m", "s">>>>,
          <<<<".", "t", "c", "a", "p">>, <<"a", "p", "p", "l", "i", "c", "a", "t", "i", "o", "n", "/", "v", "n", "d", ".", "3", "g", "p", "p", "2", ".", "t", "c", "a", "p">>>>,
          <<<<".", "i", "m", "g", "c", "a", "l">>, <<"a", "p", "p", "l", "i", "c", "a", "t", "i", "o", "n", "/", "v", "n", "d", ".", "3", "l", "i", "g", "h", "t", "s", "s", "o", "f", "t", "w", "a", "r", "e", ".", "i", "m", "a", "g", "e", "s", "c", "a", "l">>>>,
          <<<<".", "p", "w", "n">>, <<"a", "p", "p", "l", "i", "c", "a", "t", "i", "o", "n", "/", "v", "n", "d", ".", "3", "M", ".", "P", "o", "s", "t", "-", "i", "t", "-", "N", "o", "t", "e", "s">>>>,
          <<<<".", "a", "s", "o">>, <<"c", "h", "e", "m", "i", "c", "a", "l", "/", "x", "-", "n", "c", "b", "i", "-", "a", "s", "n", "1", "-", "b", "i", "n", "a", "r", "y">>>>,
          <<<<".", "i", "m", "p">>, <<"a", "p", "p", "l", "i", "c", "a", "t", "i", "o", "n", "/", "v", "n", "d", ".", "a", "c", "c", "p", "a", "c", ".", "s", "i", "m", "p", "l", "y", ".", "i", "m", "p">>>>,
          <<<<".", "a", "c", "u">>, <<"a", "p", "p", "l", "i", "c", "a", "t", "i", "o", "n", "/", "v", "n", "d", ".", "a", "c", "u", "c", "o", "b", "o", "l">>>>,
          <<<<".", "a", "t", "c">>, <<"a", "p", "p", "l", "i", "c", "a", "t", "i", "o", "n", "/", "v", "n", "d", ".", "a", "c", "u", "c", "o", "r", "p">>>>,
          <<<<".", "a", "c", "u", "t", "c">>, <<"a", "p", "p", "l", "i", "c", "a", "t", "i", "o", "n", "/", "v", "n", "d", ".", "a", "c", "u", "c", "o", "r", "p">>>>,
          <<<<".", "f", "c", "d", "t">>, <<"a", "p", "p", "l", "i", "c", "a", "t", "i", "o", "n", "/", "v", "n", "d", ".", "a", "d", "o", "b", "e", ".", "f", "o", "r", "m", "s", "c", "e", "n", "t", "r", "a", "l", ".", "f", "c", "d", "t">>>>,
          <<<<".", "f", "x", "p">>, <<"a", "p", "p", "l", "i", "c", "a", "t", "i", "o", "n", "/", "v", "n", "d", ".", "a", "d", "o", "b", "e", ".", "f", "x", "p">>>>,
          <<<<".", "f", "x", "p", "l">>, <<"a", "p", "p", "l", "i", "c", "a", "t", "i", "o", "n", "/", "v", "n", "d", ".", "a", "d", "o", "b", "e", ".", "f", "x", "p">>>>,
          <<<<".", "x", "d", "p">>, <<"a", "p", "p", "l", "i", "c", "a", "t", "i", "o", "n", "/", "v", "n", "d", ".", "a", "d", "o", "b", "e", ".", "x", "d", "p", "+", "x", "m", "l">>>>,
          <<<<".", "l", "i", "s", "t", "3", "8", "2", "0">>, <<"a", "p", "p", "l", "i", "c", "a", "t", "i", "o", "n", "/", "v", "n", "d", ".", "a", "f", "p", "c", ".", "m", "o", "d", "c", "a">>>>,
          <<<<".", "l", "i", "s", "t", "a", "f", "p">>, <<"a", "p", "p", "l", "i", "c", "a", "t", "i", "o", "n", "/", "v", "n", "d", ".", "a", "f", "p", "c", ".", "m", "o", "d", "c", "a">>>>,
          <<<<".", "a", "f", "p">>, <<"a", "p", "p", "l", "i", "c", "a", "t", "i", "o", "n", "/", "v", "n", "d", ".", "a", "f", "p", "c", ".", "m", "o", "d", "c", "a">>>>,
          <<<<".", "p", "s", "e", "g", "3", "8", "2", "0">>, <<"a", "p", "p", "l", "i", "c", "a", "t", "i", "o", "n", "/", "v", "n", "d", ".", "a", "f", "p", "c", ".", "m", "o", "d", "c", "a">>>>,
          <<<<".", "o", "v", "l">>, <<"a", "p", "p", "l", "i", "c", "a", "t", "i", "o", "n", "/", "v", "n", "d", ".", "a", "f", "p", "c", ".", "m", "o", "d", "c", "a", "-", "o", "v", "e", "r", "l", "a", "y">>>>,
          <<<<".", "p", "s", "g">>, <<"a", "p", "p", "l", "i", "c", "a", "t", "i", "o", "n", "/", "v", "n", "d", ".", "a", "f", "p", "c", ".", "m", "o", "d", "c", "a", "-", "p", "a", "g", "e", "s", "e", "g", "m", "e", "n", "t">>>>,
          <<<<".", "a", "g", "e">>, <<"a", "p", "p", "l", "i", "c", "a", "t", "i", "o", "n", "/", "v", "n", "d", ".", "a", "g", "e">>>>,
          <<<<".", "a", "h", "e", "a", "d">>, <<"a", "p", "p", "l", "i", "c", "a", "t", "i", "o", "n", "/", "v", "n", "d", ".", "a", "h", "e", "a", "d", ".", "s", "p", "a", "c", "e">>>>,
          <<<<".", "a", "z", "f">>, <<"a", "p", "p", "l", "i", "c", "a", "t", "i", "o", "n", "/", "v", "n", "d", ".", "a", "i", "r", "z", "i", "p", ".", "f", "i", "l", "e", "s", "e", "c", "u", "r", "e", ".", "a", "z", "f">>>>,
          <<<<".", "a", "z", "s">>, <<"a", "p", "p", "l", "i", "c", "a", "t", "i", "o", "n", "/", "v", "n", "d", ".", "a", "i", "r", "z", "i", "p", ".", "f", "i", "l", "e", "s", "e", "c", "u", "r", "e", ".", "a", "z", "s">>>>,
          <<<<".", "a", "z", "w", "3">>, <<"a", "p", "p", "l", "i", "c", "a", "t", "i", "o", "n", "/", "v", "n", "d", ".", "a", "m", "a", "z", "o", "n", ".", "m", "o", "b", "i", "8", "-", "e", "b", "o", "o", "k">>>>,
          <<<<".", "a", "c", "c">>, <<"a", "p", "p", "l", "i", "c", "a", "t", "i", "o", "n", "/", "v", "n", "d", ".", "a", "m", "e", "r", "i", "c", "a", "n", "d", "y", "n", "a", "m", "i", "c", "s", ".", "a", "c", "c">>>>,
          <<<<".", "a", "m", "i">>, <<"a", "p", "p", "l", "i", "c", "a", "t", "i", "o", "n", "/", "v", "n", "d", ".", "a", "m", "i", "g", "a", ".", "a", "m", "i">>>>,
          <<<<".", "o", "t", "a">>, <<"a", "p", "p", "l", "i", "c", "a", "t", "i", "o", "n", "/", "v", "n", "d", ".", "a", "n", "d", "r", "o", "i", "d", ".", "o", "t", "a">>>>,
          <<<<".", "a", "p", "k">>, <<"a", "p", "p", "l", "i", "c", "a", "t", "i", "o", "n", "/", "v", "n", "d", ".", "a", "n", "d", "r", "o", "i", "d", ".", "p", "a", "c", "k", "a", "g", "e", "-", "a", "r", "c", "h", "i", "v", "e">>>>,
          <<<<".", "a", "p", "k", "g">>, <<"a", "p", "p", "l", "i", "c", "a", "t", "i", "o", "n", "/", "v", "n", "d", ".", "a", "n", "k", "i">>>>,
          <<<<".", "c", "i", "i">>, <<"a", "p", "p", "l", "i", "c", "a", "t", "i", "o", "n", "/", "v", "n", "d", ".", "a", "n", "s", "e", "r", "-", "w", "e", "b", "-", "c", "e", "r", "t", "i", "f", "i", "c", "a", "t", "e", "-", "i", "s", "s", "u", "e", "-", "i", "n", "i", "t", "i", "a", "t", "i", "o", "n">>>>,
          <<<<".", "f", "t", "i">>, <<"a", "p", "p", "l", "i", "c", "a", "t", "i", "o", "n", "/", "v", "n", "d", ".", "a", "n", "s", "e", "r", "-", "w", "e", "b", "-", "f", "u", "n", "d", "s", "-", "t", "r", "a", "n", "s", "f", "e", "r", "-", "i", "n", "i", "t", "i", "a", "t", "i", "o", "n">>>>,
          <<<<".", "a", "r", "r", "o", "w">>, <<"a", "p", "p", "l", "i", "c", "a", "t", "i", "o", "n", "/", "v", "n", "d", ".", "a", "p", "a", "c", "h", "e", ".", "a", "r", "r", "o", "w", ".", "f", "i", "l", "e">>>>,
          <<<<".", "a", "r", "r", "o", "w", "s">>, <<"a", "p", "p", "l", "i", "c", "a", "t", "i", "o", "n", "/", "v", "n", "d", ".", "a", "p", "a", "c", "h", "e", ".", "a", "r", "r", "o", "w", ".", "s", "t", "r", "e", "a", "m">>>>,
          <<<<".", "a", "p", "e", "x", "l", "a", "n", "g">>, <<"a", "p", "p", "l", "i", "c", "a", "t", "i", "o", "n", "/", "v", "n", "d", ".", "a", "p", "e", "x", "l", "a", "n", "g">>>>,
          <<<<".", "a", "p", "e", "x">>, <<"a", "p", "p", "l", "i", "c", "a", "t", "i", "o", "n", "/", "v", "n", "d", ".", "a", "p", "e", "x", "l", "a", "n", "g">>>>,
          <<<<".", "d", "i", "s", "t">>, <<"a", "p", "p", "l", "i", "c", "a", "t", "i", "o", "n", "/", "v", "n", "d", ".", "a", "p", "p", "l", "e", ".", "i", "n", "s", "t", "a", "l", "l", "e", "r", "+", "x", "m", "l">>>>,
          <<<<".", "d", "i", "s", "t", "z">>, <<"a", "p", "p", "l", "i", "c", "a", "t", "i", "o", "n", "/", "v", "n", "d", ".", "a", "p", "p", "l", "e", ".", "i", "n", "s", "t", "a", "l", "l", "e", "r", "+", "x", "m", "l">>>>,
          <<<<".", "p", "k", "g">>, <<"a", "p", "p", "l", "i", "c", "a", "t", "i", "o", "n", "/", "v", "n", "d", ".", "a", "p", "p", "l", "e", ".", "i", "n", "s", "t", "a", "l", "l", "e", "r", "+", "x", "m", "l">>>>,
          <<<<".", "m", "p", "k", "g">>, <<"a", "p", "p", "l", "i", "c", "a", "t", "i", "o", "n", "/", "v", "n", "d", ".", "a", "p", "p", "l", "e", ".", "i", "n", "s", "t", "a", "l", "l", "e", "r", "+", "x", "m", "l">>>>,
          <<<<".", "k", "e", "y", "n", "o", "t", "e">>, <<"a", "p", "p", "l", "i", "c", "a", "t", "i", "o", "n", "/", "v", "n", "d", ".", "a", "p", "p", "l", "e", ".", "k", "e", "y", "n", "o", "t", "e">>>>,
          <<<<".", "n", "u", "m", "b", "e", "r", "s">>, <<"a", "p", "p", "l", "i", "c", "a", "t", "i", "o", "n", "/", "v", "n", "d", ".", "a", "p", "p", "l", "e", ".", "n", "u", "m", "b", "e", "r", "s">>>>,
          <<<<".", "p", "a", "g", "e", "s">>, <<"a", "p", "p", "l", "i", "c", "a", "t", "i", "o", "n", "/", "v", "n", "d", ".", "a", "p", "p", "l", "e", ".", "p", "a", "g", "e", "s">>>>,
          <<<<".", "s", "w", "i">>, <<"a", "p", "p", "l", "i", "c", "a", "t", "i", "o", "n", "/", "v", "n", "d", ".", "a", "r", "i", "s", "t", "a", "n", "e", "t", "w", "o", "r", "k", "s", ".", "s", "w", "i">>>>,
          <<<<".", "a", "r", "t", "i", "s", "a", "n">>, <<"a", "p", "p", "l", "i", "c", "a", "t", "i", "o", "n", "/", "v", "n", "d", ".", "a", "r", "t", "i", "s", "a", "n", "+", "j", "s", "o", "n">>>>,
          <<<<".", "i", "o", "t", "a">>, <<"a", "p", "p", "l", "i", "c", "a", "t", "i", "o", "n", "/", "v", "n", "d", ".", "a", "s", "t", "r", "a", "e", "a", "-", "s", "o", "f", "t", "w", "a", "r", "e", ".", "i", "o", "t", "a">>>>,
          <<<<".", "a", "e", "p">>, <<"a", "p", "p", "l", "i", "c", "a", "t", "i", "o", "n", "/", "v", "n", "d", ".", "a", "u", "d", "i", "o", "g", "r", "a", "p", "h">>>>,
          <<<<".", "p", "a", "c", "k", "a", "g", "e">>, <<"a", "p", "p", "l", "i", "c", "a", "t", "i", "o", "n", "/", "v", "n", "d", ".", "a", "u", "t", "o", "p", "a", "c", "k", "a", "g", "e">>>>,
          <<<<".", "b", "m", "m", "l">>, <<"a", "p", "p", "l", "i", "c", "a", "t", "i", "o", "n", "/", "v", "n", "d", ".", "b", "a", "l", "s", "a", "m", "i", "q", ".", "b", "m", "m", "l", "+", "x", "m", "l">>>>,
          <<<<".", "b", "m", "p", "r">>, <<"a", "p", "p", "l", "i", "c", "a", "t", "i", "o", "n", "/", "v", "n", "d", ".", "b", "a", "l", "s", "a", "m", "i", "q", ".", "b", "m", "p", "r">>>>,
          <<<<".", "a", "c", "2">>, <<"a", "p", "p", "l", "i", "c", "a", "t", "i", "o", "n", "/", "v", "n", "d", ".", "b", "a", "n", "a", "n", "a", "-", "a", "c", "c", "o", "u", "n", "t", "i", "n", "g">>>>,
          <<<<".", "l", "h", "z", "d">>, <<"a", "p", "p", "l", "i", "c", "a", "t", "i", "o", "n", "/", "v", "n", "d", ".", "b", "e", "l", "i", "g", "h", "t", "s", "o", "f", "t", ".", "l", "h", "z", "d", "+", "z", "i", "p">>>>,
          <<<<".", "l", "h", "z", "l">>, <<"a", "p", "p", "l", "i", "c", "a", "t", "i", "o", "n", "/", "v", "n", "d", ".", "b", "e", "l", "i", "g", "h", "t", "s", "o", "f", "t", ".", "l", "h", "z", "l", "+", "z", "i", "p">>>>,
          <<<<".", "m", "p", "m">>, <<"a", "p", "p", "l", "i", "c", "a", "t", "i", "o", "n", "/", "v", "n", "d", ".", "b", "l", "u", "e", "i", "c", "e", ".", "m", "u", "l", "t", "i", "p", "a", "s", "s">>>>,
          <<<<".", "e", "p">>, <<"a", "p", "p", "l", "i", "c", "a", "t", "i", "o", "n", "/", "v", "n", "d", ".", "b", "l", "u", "e", "t", "o", "o", "t", "h", ".", "e", "p", ".", "o", "o", "b">>>>,
          <<<<".", "l", "e">>, <<"a", "p", "p", "l", "i", "c", "a", "t", "i", "o", "n", "/", "v", "n", "d", ".", "b", "l", "u", "e", "t", "o", "o", "t", "h", ".", "l", "e", ".", "o", "o", "b">>>>,
          <<<<".", "b", "m", "i">>, <<"a", "p", "p", "l", "i", "c", "a", "t", "i", "o", "n", "/", "v", "n", "d", ".", "b", "m", "i">>>>,
          <<<<".", "r", "e", "p">>, <<"a", "p", "p", "l", "i", "c", "a", "t", "i", "o", "n", "/", "v", "n", "d", ".", "b", "u", "s", "i", "n", "e", "s", "s", "o", "b", "j", "e", "c", "t", "s">>>>,
          <<<<".", "t", "l", "c", "l", "i", "e", "n", "t">>, <<"a", "p", "p", "l", "i", "c", "a", "t", "i", "o", "n", "/", "v", "n", "d", ".", "c", "e", "n", "d", "i", "o", ".", "t", "h", "i", "n", "l", "i", "n", "c", ".", "c", "l", "i", "e", "n", "t", "c", "o", "n", "f">>>>,
          <<<<".", "c", "d", "x", "m", "l">>, <<"a", "p", "p", "l", "i", "c", "a", "t", "i", "o", "n", "/", "v", "n", "d", ".", "c", "h", "e", "m", "d", "r", "a", "w", "+", "x", "m", "l">>>>,
          <<<<".", "p", "g", "n">>, <<"a", "p", "p", "l", "i", "c", "a", "t", "i", "o", "n", "/", "v", "n", "d", ".", "c", "h", "e", "s", "s", "-", "p", "g", "n">>>>,
          <<<<".", "m", "m", "d">>, <<"a", "p", "p", "l", "i", "c", "a", "t", "i", "o", "n", "/", "v", "n", "d", ".", "c", "h", "i", "p", "n", "u", "t", "s", ".", "k", "a", "r", "a", "o", "k", "e", "-", "m", "m", "d">>>>,
          <<<<".", "c", "d", "y">>, <<"a", "p", "p", "l", "i", "c", "a", "t", "i", "o", "n", "/", "v", "n", "d", ".", "c", "i", "n", "d", "e", "r", "e", "l", "l", "a">>>>,
          <<<<".", "c", "s", "l">>, <<"a", "p", "p", "l", "i", "c", "a", "t", "i", "o", "n", "/", "v", "n", "d", ".", "c", "i", "t", "a", "t", "i", "o", "n", "s", "t", "y", "l", "e", "s", ".", "s", "t", "y", "l", "e", "+", "x", "m", "l">>>>,
          <<<<".", "c", "l", "a">>, <<"a", "p", "p", "l", "i", "c", "a", "t", "i", "o", "n", "/", "v", "n", "d", ".", "c", "l", "a", "y", "m", "o", "r", "e">>>>,
          <<<<".", "r", "p", "9">>, <<"a", "p", "p", "l", "i", "c", "a", "t", "i", "o", "n", "/", "v", "n", "d", ".", "c", "l", "o", "a", "n", "t", "o", ".", "r", "p", "9">>>>,
          <<<<".", "c", "4", "g">>, <<"a", "p", "p", "l", "i", "c", "a", "t", "i", "o", "n", "/", "v", "n", "d", ".", "c", "l", "o", "n", "k", ".", "c", "4", "g", "r", "o", "u", "p">>>>,
          <<<<".", "c", "4", "d">>, <<"a", "p", "p", "l", "i", "c", "a", "t", "i", "o", "n", "/", "v", "n", "d", ".", "c", "l", "o", "n", "k", ".", "c", "4", "g", "r", "o", "u", "p">>>>,
          <<<<".", "c", "4", "f">>, <<"a", "p", "p", "l", "i", "c", "a", "t", "i", "o", "n", "/", "v", "n", "d", ".", "c", "l", "o", "n", "k", ".", "c", "4", "g", "r", "o", "u", "p">>>>,
          <<<<".", "c", "4", "p">>, <<"a", "p", "p", "l", "i", "c", "a", "t", "i", "o", "n", "/", "v", "n", "d", ".", "c", "l", "o", "n", "k", ".", "c", "4", "g", "r", "o", "u", "p">>>>,
          <<<<".", "c", "4", "u">>, <<"a", "p", "p", "l", "i", "c", "a", "t", "i", "o", "n", "/", "v", "n", "d", ".", "c", "l", "o", "n", "k", ".", "c", "4", "g", "r", "o", "u", "p">>>>,
          <<<<".", "c", "1", "1", "a", "m", "c">>, <<"a", "p", "p", "l", "i", "c", "a", "t", "i", "o", "n", "/", "v", "n", "d", ".", "c", "l", "u", "e", "t", "r", "u", "s", "t", ".", "c", "a", "r", "t", "o", "m", "o", "b", "i", "l", "e", "-", "c", "o", "n", "f", "i", "g">>>>,
          <<<<".", "c", "1", "1", "a", "m", "z">>, <<"a", "p", "p", "l", "i", "c", "a", "t", "i", "o", "n", "/", "v", "n", "d", ".", "c", "l", "u", "e", "t", "r", "u", "s", "t", ".", "c", "a", "r", "t", "o", "m", "o", "b", "i", "l", "e", "-", "c", "o", "n", "f", "i", "g", "-", "p", "k", "g">>>>,
          <<<<".", "c", "o", "f", "f", "e", "e">>, <<"a", "p", "p", "l", "i", "c", "a", "t", "i", "o", "n", "/", "v", "n", "d", ".", "c", "o", "f", "f", "e", "e", "s", "c", "r", "i", "p", "t">>>>,
          <<<<".", "x", "o", "d", "t">>, <<"a", "p", "p", "l", "i", "c", "a", "t", "i", "o", "n", "/", "v", "n", "d", ".", "c", "o", "l", "l", "a", "b", "i", "o", ".", "x", "o", "d", "o", "c", "u", "m", "e", "n", "t", "s", ".", "d", "o", "c", "u", "m", "e", "n", "t">>>>,
          <<<<".", "x", "o", "t", "t">>, <<"a", "p", "p", "l", "i", "c", "a", "t", "i", "o", "n", "/", "v", "n", "d", ".", "c", "o", "l", "l", "a", "b", "i", "o", ".", "x", "o", "d", "o", "c", "u", "m", "e", "n", "t", "s", ".", "d", "o", "c", "u", "m", "e", "n", "t", "-", "t", "e", "m", "p", "l", "a", "t", "e">>>>,
          <<<<".", "x", "o", "d", "p">>, <<"a", "p", "p", "l", "i", "c", "a", "t", "i", "o", "n", "/", "v", "n", "d", ".", "c", "o", "l", "l", "a", "b", "i", "o", ".", "x", "o", "d", "o", "c", "u", "m", "e", "n", "t", "s", ".", "p", "r", "e", "s", "e", "n", "t", "a", "t", "i", "o", "n">>>>,
          <<<<".", "x", "o", "t", "p">>, <<"a", "p", "p", "l", "i", "c", "a", "t", "i", "o", "n", "/", "v", "n", "d", ".", "c", "o", "l", "l", "a", "b", "i", "o", ".", "x", "o", "d", "o", "c", "u", "m", "e", "n", "t", "s", ".", "p", "r", "e", "s", "e", "n", "t", "a", "t", "i", "o", "n", "-", "t", "e", "m", "p", "l", "a", "t", "e">>>>,
          <<<<".", "x", "o", "d", "s">>, <<"a", "p", "p", "l", "i", "c", "a", "t", "i", "o", "n", "/", "v", "n", "d", ".", "c", "o", "l", "l", "a", "b", "i", "o", ".", "x", "o", "d", "o", "c", "u", "m", "e", "n", "t", "s", ".", "s", "p", "r", "e", "a", "d", "s", "h", "e", "e", "t">>>>,
          <<<<".", "x", "o", "t", "s">>, <<"a", "p", "p", "l", "i", "c", "a", "t", "i", "o", "n", "/", "v", "n", "d", ".", "c", "o", "l", "l", "a", "b", "i", "o", ".", "x", "o", "d", "o", "c", "u", "m", "e", "n", "t", "s", ".", "s", "p", "r", "e", "a", "d", "s", "h", "e", "e", "t", "-", "t", "e", "m", "p", "l", "a", "t", "e">>>>,
          <<<<".", "c", "b", "z">>, <<"a", "p", "p", "l", "i", "c", "a", "t", "i", "o", "n", "/", "v", "n", "d", ".", "c", "o", "m", "i", "c", "b", "o", "o", "k", "+", "z", "i", "p">>>>,
          <<<<".", "c", "b", "r">>, <<"a", "p", "p", "l", "i", "c", "a", "t", "i", "o", "n", "/", "v", "n", "d", ".", "c", "o", "m", "i", "c", "b", "o", "o", "k", "-", "r", "a", "r">>>>,
          <<<<".", "i", "c", "f">>, <<"a", "p", "p", "l", "i", "c", "a", "t", "i", "o", "n", "/", "v", "n", "d", ".", "c", "o", "m", "m", "e", "r", "c", "e", "-", "b", "a", "t", "t", "e", "l", "l", "e">>>>,
          <<<<".", "i", "c", "d">>, <<"a", "p", "p", "l", "i", "c", "a", "t", "i", "o", "n", "/", "v", "n", "d", ".", "c", "o", "m", "m", "e", "r", "c", "e", "-", "b", "a", "t", "t", "e", "l", "l", "e">>>>,
          <<<<".", "i", "c", "0">>, <<"a", "p", "p", "l", "i", "c", "a", "t", "i", "o", "n", "/", "v", "n", "d", ".", "c", "o", "m", "m", "e", "r", "c", "e", "-", "b", "a", "t", "t", "e", "l", "l", "e">>>>,
          <<<<".", "i", "c", "1">>, <<"a", "p", "p", "l", "i", "c", "a", "t", "i", "o", "n", "/", "v", "n", "d", ".", "c", "o", "m", "m", "e", "r", "c", "e", "-", "b", "a", "t", "t", "e", "l", "l", "e">>>>,
          <<<<".", "i", "c", "2">>, <<"a", "p", "p", "l", "i", "c", "a", "t", "i", "o", "n", "/", "v", "n", "d", ".", "c", "o", "m", "m", "e", "r", "c", "e", "-", "b", "a", "t", "t", "e", "l", "l", "e">>>>,
          <<<<".", "i", "c", "3">>, <<"a", "p", "p", "l", "i", "c", "a", "t", "i", "o", "n", "/", "v", "n", "d", ".", "c", "o", "m", "m", "e", "r", "c", "e", "-", "b", "a", "t", "t", "e", "l", "l", "e">>>>,
          <<<<".", "i", "c", "4">>, <<"a", "p", "p", "l", "i", "c", "a", "t", "i", "o", "n", "/", "v", "n", "d", ".", "c", "o", "m", "m", "e", "r", "c", "e", "-", "b", "a", "t", "t", "e", "l", "l", "e">>>>,
          <<<<".", "i", "c", "5">>, <<"a", "p", "p", "l", "i", "c", "a", "t", "i", "o", "n", "/", "v", "n", "d", ".", "c", "o", "m", "m", "e", "r", "c", "e", "-", "b", "a", "t", "t", "e", "l", "l", "e">>>>,
          <<<<".", "i", "c", "6">>, <<"a", "p", "p", "l", "i", "c", "a", "t", "i", "o", "n", "/", "v", "n", "d", ".", "c", "o", "m", "m", "e", "r", "c", "e", "-", "b", "a", "t", "t", "e", "l", "l", "e">>>>,
          <<<<".", "i", "c", "7">>, <<"a", "p", "p", "l", "i", "c", "a", "t", "i", "o", "n", "/", "v", "n", "d", ".", "c", "o", "m", "m", "e", "r", "c", "e", "-", "b", "a", "t", "t", "e", "l", "l", "e">>>>,
          <<<<".", "i", "c", "8">>, <<"a", "p", "p", "l", "i", "c", "a", "t", "i", "o", "n", "/", "v", "n", "d", ".", "c", "o", "m", "m", "e", "r", "c", "e", "-", "b", "a", "t", "t", "e", "l", "l", "e">>>>,
          <<<<".", "c", "s", "p">>, <<"a", "p", "p", "l", "i", "c", "a", "t", "i", "o", "n", "/", "v", "n", "d", ".", "c", "o", "m", "m", "o", "n", "s", "p", "a", "c", "e">>>>,
          <<<<".", "c", "s", "t">>, <<"a", "p", "p", "l", "i", "c", "a", "t", "i", "o", "n", "/", "v", "n", "d", ".", "c", "o", "m", "m", "o", "n", "s", "p", "a", "c", "e">>>>,
          <<<<".", "c", "d", "b", "c", "m", "s", "g">>, <<"a", "p", "p", "l", "i", "c", "a", "t", "i", "o", "n", "/", "v", "n", "d", ".", "c", "o", "n", "t", "a", "c", "t", ".", "c", "m", "s", "g">>>>,
          <<<<".", "i", "g", "n">>, <<"a", "p", "p", "l", "i", "c", "a", "t", "i", "o", "n", "/", "v", "n", "d", ".", "c", "o", "r", "e", "o", "s", ".", "i", "g", "n", "i", "t", "i", "o", "n", "+", "j", "s", "o", "n">>>>,
          <<<<".", "i", "g", "n", "i", "t", "i", "o", "n">>, <<"a", "p", "p", "l", "i", "c", "a", "t", "i", "o", "n", "/", "v", "n", "d", ".", "c", "o", "r", "e", "o", "s", ".", "i", "g", "n", "i", "t", "i", "o", "n", "+", "j", "s", "o", "n">>>>,
          <<<<".", "c", "m", "c">>, <<"a", "p", "p", "l", "i", "c", "a", "t", "i", "o", "n", "/", "v", "n", "d", ".", "c", "o", "s", "m", "o", "c", "a", "l", "l", "e", "r">>>>,
          <<<<".", "c", "l", "k", "x">>, <<"a", "p", "p", "l", "i", "c", "a", "t", "i", "o", "n", "/", "v", "n", "d", ".", "c", "r", "i", "c", "k", ".", "c", "l", "i", "c", "k", "e", "r">>>>,
          <<<<".", "c", "l", "k", "k">>, <<"a", "p", "p", "l", "i", "c", "a", "t", "i", "o", "n", "/", "v", "n", "d", ".", "c", "r", "i", "c", "k", ".", "c", "l", "i", "c", "k", "e", "r", ".", "k", "e", "y", "b", "o", "a", "r", "d">>>>,
          <<<<".", "c", "l", "k", "p">>, <<"a", "p", "p", "l", "i", "c", "a", "t", "i", "o", "n", "/", "v", "n", "d", ".", "c", "r", "i", "c", "k", ".", "c", "l", "i", "c", "k", "e", "r", ".", "p", "a", "l", "e", "t", "t", "e">>>>,
          <<<<".", "c", "l", "k", "t">>, <<"a", "p", "p", "l", "i", "c", "a", "t", "i", "o", "n", "/", "v", "n", "d", ".", "c", "r", "i", "c", "k", ".", "c", "l", "i", "c", "k", "e", "r", ".", "t", "e", "m", "p", "l", "a", "t", "e">>>>,
          <<<<".", "c", "l", "k", "w">>, <<"a", "p", "p", "l", "i", "c", "a", "t", "i", "o", "n", "/", "v", "n", "d", ".", "c", "r", "i", "c", "k", ".", "c", "l", "i", "c", "k", "e", "r", ".", "w", "o", "r", "d", "b", "a", "n", "k">>>>,
          <<<<".", "w", "b", "s">>, <<"a", "p", "p", "l", "i", "c", "a", "t", "i", "o", "n", "/", "v", "n", "d", ".", "c", "r", "i", "t", "i", "c", "a", "l", "t", "o", "o", "l", "s", ".", "w", "b", "s", "+", "x", "m", "l">>>>,
          <<<<".", "s", "s", "v", "c">>, <<"a", "p", "p", "l", "i", "c", "a", "t", "i", "o", "n", "/", "v", "n", "d", ".", "c", "r", "y", "p", "t", "o", "-", "s", "h", "a", "d", "e", "-", "f", "i", "l", "e">>>>,
          <<<<".", "c", "9", "r">>, <<"a", "p", "p", "l", "i", "c", "a", "t", "i", "o", "n", "/", "v", "n", "d", ".", "c", "r", "y", "p", "t", "o", "m", "a", "t", "o", "r", ".", "e", "n", "c", "r", "y", "p", "t", "e", "d">>>>,
          <<<<".", "c", "9", "s">>, <<"a", "p", "p", "l", "i", "c", "a", "t", "i", "o", "n", "/", "v", "n", "d", ".", "c", "r", "y", "p", "t", "o", "m", "a", "t", "o", "r", ".", "e", "n", "c", "r", "y", "p", "t", "e", "d">>>>,
          <<<<".", "c", "r", "y", "p", "t", "o", "m", "a", "t", "o", "r">>, <<"a", "p", "p", "l", "i", "c", "a", "t", "i", "o", "n", "/", "v", "n", "d", ".", "c", "r", "y", "p", "t", "o", "m", "a", "t", "o", "r", ".", "v", "a", "u", "l", "t">>>>,
          <<<<".", "p", "m", "l">>, <<"a", "p", "p", "l", "i", "c", "a", "t", "i", "o", "n", "/", "v", "n", "d", ".", "c", "t", "c", "-", "p", "o", "s", "m", "l">>>>,
          <<<<".", "p", "p", "d">>, <<"a", "p", "p", "l", "i", "c", "a", "t", "i", "o", "n", "/", "v", "n", "d", ".", "c", "u", "p", "s", "-", "p", "p", "d">>>>,
          <<<<".", "d", "a", "r", "t">>, <<"a", "p", "p", "l", "i", "c", "a", "t", "i", "o", "n", "/", "v", "n", "d", ".", "d", "a", "r", "t">>>>,
          <<<<".", "r", "d", "z">>, <<"a", "p", "p", "l", "i", "c", "a", "t", "i", "o", "n", "/", "v", "n", "d", ".", "d", "a", "t", "a", "-", "v", "i", "s", "i", "o", "n", ".", "r", "d", "z">>>>,
          <<<<".", "d", "l">>, <<"a", "p", "p", "l", "i", "c", "a", "t", "i", "o", "n", "/", "v", "n", "d", ".", "d", "a", "t", "a", "l", "o", "g">>>>,
          <<<<".", "d", "b", "f">>, <<"a", "p", "p", "l", "i", "c", "a", "t", "i", "o", "n", "/", "v", "n", "d", ".", "d", "b", "f">>>>,
          <<<<".", "d", "e", "b">>, <<"a", "p", "p", "l", "i", "c", "a", "t", "i", "o", "n", "/", "v", "n", "d", ".", "d", "e", "b", "i", "a", "n", ".", "b", "i", "n", "a", "r", "y", "-", "p", "a", "c", "k", "a", "g", "e">>>>,
          <<<<".", "d", "d", "e", "b">>, <<"a", "p", "p", "l", "i", "c", "a", "t", "i", "o", "n", "/", "v", "n", "d", ".", "d", "e", "b", "i", "a", "n", ".", "b", "i", "n", "a", "r", "y", "-", "p", "a", "c", "k", "a", "g", "e">>>>,
          <<<<".", "u", "d", "e", "b">>, <<"a", "p", "p", "l", "i", "c", "a", "t", "i", "o", "n", "/", "v", "n", "d", ".", "d", "e", "b", "i", "a", "n", ".", "b", "i", "n", "a", "r", "y", "-", "p", "a", "c", "k", "a", "g", "e">>>>,
          <<<<".", "u", "v", "f">>, <<"a", "p", "p", "l", "i", "c", "a", "t", "i", "o", "n", "/", "v", "n", "d", ".", "d", "e", "c", "e", ".", "d", "a", "t", "a">>>>,
          <<<<".", "u", "v", "v", "f">>, <<"a", "p", "p", "l", "i", "c", "a", "t", "i", "o", "n", "/", "v", "n", "d", ".", "d", "e", "c", "e", ".", "d", "a", "t", "a">>>>,
          <<<<".", "u", "v", "d">>, <<"a", "p", "p", "l", "i", "c", "a", "t", "i", "o", "n", "/", "v", "n", "d", ".", "d", "e", "c", "e", ".", "d", "a", "t", "a">>>>,
          <<<<".", "u", "v", "v", "d">>, <<"a", "p", "p", "l", "i", "c", "a", "t", "i", "o", "n", "/", "v", "n", "d", ".", "d", "e", "c", "e", ".", "d", "a", "t", "a">>>>,
          <<<<".", "u", "v", "t">>, <<"a", "p", "p", "l", "i", "c", "a", "t", "i", "o", "n", "/", "v", "n", "d", ".", "d", "e", "c", "e", ".", "t", "t", "m", "l", "+", "x", "m", "l">>>>,
          <<<<".", "u", "v", "v", "t">>, <<"a", "p", "p", "l", "i", "c", "a", "t", "i", "o", "n", "/", "v", "n", "d", ".", "d", "e", "c", "e", ".", "t", "t", "m", "l", "+", "x", "m", "l">>>>,
          <<<<".", "u", "v", "x">>, <<"a", "p", "p", "l", "i", "c", "a", "t", "i", "o", "n", "/", "v", "n", "d", ".", "d", "e", "c", "e", ".", "u", "n", "s", "p", "e", "c", "i", "f", "i", "e", "d">>>>,
          <<<<".", "u", "v", "v", "x">>, <<"a", "p", "p", "l", "i", "c", "a", "t", "i", "o", "n", "/", "v", "n", "d", ".", "d", "e", "c", "e", ".", "u", "n", "s", "p", "e", "c", "i", "f", "i", "e", "d">>>>,
          <<<<".", "u", "v", "z">>, <<"a", "p", "p", "l", "i", "c", "a", "t", "i", "o", "n", "/", "v", "n", "d", ".", "d", "e", "c", "e", ".", "z", "i", "p">>>>,
          <<<<".", "u", "v", "v", "z">>, <<"a", "p", "p", "l", "i", "c", "a", "t", "i", "o", "n", "/", "v", "n", "d", ".", "d", "e", "c", "e", ".", "z", "i", "p">>>>,
          <<<<".", "f", "e", "_", "l", "a", "u", "n", "c", "h">>, <<"a", "p", "p", "l", "i", "c", "a", "t", "i", "o", "n", "/", "v", "n", "d", ".", "d", "e", "n", "o", "v", "o", ".", "f", "c", "s", "e", "l", "a", "y", "o", "u", "t", "-", "l", "i", "n", "k">>>>,
          <<<<".", "d", "s", "m">>, <<"a", "p", "p", "l", "i", "c", "a", "t", "i", "o", "n", "/", "v", "n", "d", ".", "d", "e", "s", "m", "u", "m", "e", ".", "m", "o", "v", "i", "e">>>>,
          <<<<".", "d", "n", "a">>, <<"a", "p", "p", "l", "i", "c", "a", "t", "i", "o", "n", "/", "v", "n", "d", ".", "d", "n", "a">>>>,
          <<<<".", "d", "o", "c", "j", "s", "o", "n">>, <<"a", "p", "p", "l", "i", "c", "a", "t", "i", "o", "n", "/", "v", "n", "d", ".", "d", "o", "c", "u", "m", "e", "n", "t", "+", "j", "s", "o", "n">>>>,
          <<<<".", "s", "c", "l", "d">>, <<"a", "p", "p", "l", "i", "c", "a", "t", "i", "o", "n", "/", "v", "n", "d", ".", "d", "o", "r", "e", "m", "i", "r", ".", "s", "c", "o", "r", "e", "c", "l", "o", "u", "d", "-", "b", "i", "n", "a", "r", "y", "-", "d", "o", "c", "u", "m", "e", "n", "t">>>>,
          <<<<".", "d", "p", "g">>, <<"a", "p", "p", "l", "i", "c", "a", "t", "i", "o", "n", "/", "v", "n", "d", ".", "d", "p", "g", "r", "a", "p", "h">>>>,
          <<<<".", "m", "w", "c">>, <<"a", "p", "p", "l", "i", "c", "a", "t", "i", "o", "n", "/", "v", "n", "d", ".", "d", "p", "g", "r", "a", "p", "h">>>>,
          <<<<".", "d", "p", "g", "r", "a", "p", "h">>, <<"a", "p", "p", "l", "i", "c", "a", "t", "i", "o", "n", "/", "v", "n", "d", ".", "d", "p", "g", "r", "a", "p", "h">>>>,
          <<<<".", "d", "f", "a", "c">>, <<"a", "p", "p", "l", "i", "c", "a", "t", "i", "o", "n", "/", "v", "n", "d", ".", "d", "r", "e", "a", "m", "f", "a", "c", "t", "o", "r", "y">>>>,
          <<<<".", "f", "l", "a">>, <<"a", "p", "p", "l", "i", "c", "a", "t", "i", "o", "n", "/", "v", "n", "d", ".", "d", "t", "g", ".", "l", "o", "c", "a", "l", ".", "f", "l", "a", "s", "h">>>>,
          <<<<".", "a", "i", "t">>, <<"a", "p", "p", "l", "i", "c", "a", "t", "i", "o", "n", "/", "v", "n", "d", ".", "d", "v", "b", ".", "a", "i", "t">>>>,
          <<<<".", "s", "v", "c">>, <<"a", "p", "p", "l", "i", "c", "a", "t", "i", "o", "n", "/", "v", "n", "d", ".", "d", "v", "b", ".", "s", "e", "r", "v", "i", "c", "e">>>>,
          <<<<".", "g", "e", "o">>, <<"a", "p", "p", "l", "i", "c", "a", "t", "i", "o", "n", "/", "v", "n", "d", ".", "d", "y", "n", "a", "g", "e", "o">>>>,
          <<<<".", "d", "z", "r">>, <<"a", "p", "p", "l", "i", "c", "a", "t", "i", "o", "n", "/", "v", "n", "d", ".", "d", "z", "r">>>>,
          <<<<".", "m", "a", "g">>, <<"a", "p", "p", "l", "i", "c", "a", "t", "i", "o", "n", "/", "v", "n", "d", ".", "e", "c", "o", "w", "i", "n", ".", "c", "h", "a", "r", "t">>>>,
          <<<<".", "E", "L", "N">>, <<"a", "p", "p", "l", "i", "c", "a", "t", "i", "o", "n", "/", "v", "n", "d", ".", "e", "l", "n", "+", "z", "i", "p">>>>,
          <<<<".", "n", "m", "l">>, <<"a", "p", "p", "l", "i", "c", "a", "t", "i", "o", "n", "/", "v", "n", "d", ".", "e", "n", "l", "i", "v", "e", "n">>>>,
          <<<<".", "e", "s", "f">>, <<"a", "p", "p", "l", "i", "c", "a", "t", "i", "o", "n", "/", "v", "n", "d", ".", "e", "p", "s", "o", "n", ".", "e", "s", "f">>>>,
          <<<<".", "m", "s", "f">>, <<"a", "p", "p", "l", "i", "c", "a", "t", "i", "o", "n", "/", "v", "n", "d", ".", "e", "p", "s", "o", "n", ".", "m", "s", "f">>>>,
          <<<<".", "q", "a", "m">>, <<"a", "p", "p", "l", "i", "c", "a", "t", "i", "o", "n", "/", "v", "n", "d", ".", "e", "p", "s", "o", "n", ".", "q", "u", "i", "c", "k", "a", "n", "i", "m", "e">>>>,
          <<<<".", "s", "l", "t">>, <<"a", "p", "p", "l", "i", "c", "a", "t", "i", "o", "n", "/", "v", "n", "d", ".", "e", "p", "s", "o", "n", ".", "s", "a", "l", "t">>>>,
          <<<<".", "s", "s", "f">>, <<"a", "p", "p", "l", "i", "c", "a", "t", "i", "o", "n", "/", "v", "n", "d", ".", "e", "p", "s", "o", "n", ".", "s", "s", "f">>>>,
          <<<<".", "q", "c", "a", "l", "l">>, <<"a", "p", "p", "l", "i", "c", "a", "t", "i", "o", "n", "/", "v", "n", "d", ".", "e", "r", "i", "c", "s", "s", "o", "n", ".", "q", "u", "i", "c", "k", "c", "a", "l", "l">>>>,
          <<<<".", "q", "c", "a">>, <<"a", "p", "p", "l", "i", "c", "a", "t", "i", "o", "n", "/", "v", "n", "d", ".", "e", "r", "i", "c", "s", "s", "o", "n", ".", "q", "u", "i", "c", "k", "c", "a", "l", "l">>>>,
          <<<<".", "e", "s", "p", "a", "s", "s">>, <<"a", "p", "p", "l", "i", "c", "a", "t", "i", "o", "n", "/", "v", "n", "d", ".", "e", "s", "p", "a", "s", "s", "-", "e", "s", "p", "a", "s", "s", "+", "z", "i", "p">>>>,
          <<<<".", "e", "s", "3">>, <<"a", "p", "p", "l", "i", "c", "a", "t", "i", "o", "n", "/", "v", "n", "d", ".", "e", "s", "z", "i", "g", "n", "o", "3", "+", "x", "m", "l">>>>,
          <<<<".", "e", "t", "3">>, <<"a", "p", "p", "l", "i", "c", "a", "t", "i", "o", "n", "/", "v", "n", "d", ".", "e", "s", "z", "i", "g", "n", "o", "3", "+", "x", "m", "l">>>>,
          <<<<".", "a", "s", "i", "c", "e">>, <<"a", "p", "p", "l", "i", "c", "a", "t", "i", "o", "n", "/", "v", "n", "d", ".", "e", "t", "s", "i", ".", "a", "s", "i", "c", "-", "e", "+", "z", "i", "p">>>>,
          <<<<".", "s", "c", "e">>, <<"a", "p", "p", "l", "i", "c", "a", "t", "i", "o", "n", "/", "x", "-", "s", "c", "i", "l", "a", "b">>>>,
          <<<<".", "a", "s", "i", "c", "s">>, <<"a", "p", "p", "l", "i", "c", "a", "t", "i", "o", "n", "/", "v", "n", "d", ".", "e", "t", "s", "i", ".", "a", "s", "i", "c", "-", "s", "+", "z", "i", "p">>>>,
          <<<<".", "t", "s", "t">>, <<"a", "p", "p", "l", "i", "c", "a", "t", "i", "o", "n", "/", "v", "n", "d", ".", "e", "t", "s", "i", ".", "t", "i", "m", "e", "s", "t", "a", "m", "p", "-", "t", "o", "k", "e", "n">>>>,
          <<<<".", "c", "a", "r", "j", "s", "o", "n">>, <<"a", "p", "p", "l", "i", "c", "a", "t", "i", "o", "n", "/", "v", "n", "d", ".", "e", "u", ".", "k", "a", "s", "p", "a", "r", "i", "a", "n", ".", "c", "a", "r", "+", "j", "s", "o", "n">>>>,
          <<<<".", "e", "c", "i", "g", "p", "r", "o", "f", "i", "l", "e">>, <<"a", "p", "p", "l", "i", "c", "a", "t", "i", "o", "n", "/", "v", "n", "d", ".", "e", "v", "o", "l", "v", ".", "e", "c", "i", "g", ".", "p", "r", "o", "f", "i", "l", "e">>>>,
          <<<<".", "e", "c", "i", "g">>, <<"a", "p", "p", "l", "i", "c", "a", "t", "i", "o", "n", "/", "v", "n", "d", ".", "e", "v", "o", "l", "v", ".", "e", "c", "i", "g", ".", "s", "e", "t", "t", "i", "n", "g", "s">>>>,
          <<<<".", "e", "c", "i", "g", "t", "h", "e", "m", "e">>, <<"a", "p", "p", "l", "i", "c", "a", "t", "i", "o", "n", "/", "v", "n", "d", ".", "e", "v", "o", "l", "v", ".", "e", "c", "i", "g", ".", "t", "h", "e", "m", "e">>>>,
          <<<<".", "m", "p", "w">>, <<"a", "p", "p", "l", "i", "c", "a", "t", "i", "o", "n", "/", "v", "n", "d", ".", "e", "x", "s", "t", "r", "e", "a", "m", "-", "e", "m", "p", "o", "w", "e", "r", "+", "z", "i", "p">>>>,
          <<<<".", "p", "u", "b">>, <<"a", "p", "p", "l", "i", "c", "a", "t", "i", "o", "n", "/", "v", "n", "d", ".", "e", "x", "s", "t", "r", "e", "a", "m", "-", "p", "a", "c", "k", "a", "g", "e">>>>,
          <<<<".", "e", "z", "2">>, <<"a", "p", "p", "l", "i", "c", "a", "t", "i", "o", "n", "/", "v", "n", "d", ".", "e", "z", "p", "i", "x", "-", "a", "l", "b", "u", "m">>>>,
          <<<<".", "e", "z", "3">>, <<"a", "p", "p", "l", "i", "c", "a", "t", "i", "o", "n", "/", "v", "n", "d", ".", "e", "z", "p", "i", "x", "-", "p", "a", "c", "k", "a", "g", "e">>>>,
          <<<<".", "g", "d", "z">>, <<"a", "p", "p", "l", "i", "c", "a", "t", "i", "o", "n", "/", "v", "n", "d", ".", "f", "a", "m", "i", "l", "y", "s", "e", "a", "r", "c", "h", ".", "g", "e", "d", "c", "o", "m", "+", "z", "i", "p">>>>,
          <<<<".", "d", "i", "m">>, <<"a", "p", "p", "l", "i", "c", "a", "t", "i", "o", "n", "/", "v", "n", "d", ".", "f", "a", "s", "t", "c", "o", "p", "y", "-", "d", "i", "s", "k", "-", "i", "m", "a", "g", "e">>>>,
          <<<<".", "m", "s", "d">>, <<"a", "p", "p", "l", "i", "c", "a", "t", "i", "o", "n", "/", "v", "n", "d", ".", "f", "d", "s", "n", ".", "m", "s", "e", "e", "d">>>>,
          <<<<".", "m", "s", "e", "e", "d">>, <<"a", "p", "p", "l", "i", "c", "a", "t", "i", "o", "n", "/", "v", "n", "d", ".", "f", "d", "s", "n", ".", "m", "s", "e", "e", "d">>>>,
          <<<<".", "s", "e", "e", "d">>, <<"a", "p", "p", "l", "i", "c", "a", "t", "i", "o", "n", "/", "v", "n", "d", ".", "f", "d", "s", "n", ".", "s", "e", "e", "d">>>>,
          <<<<".", "d", "a", "t", "a", "l", "e", "s", "s">>, <<"a", "p", "p", "l", "i", "c", "a", "t", "i", "o", "n", "/", "v", "n", "d", ".", "f", "d", "s", "n", ".", "s", "e", "e", "d">>>>,
          <<<<".", "f", "l", "b">>, <<"a", "p", "p", "l", "i", "c", "a", "t", "i", "o", "n", "/", "v", "n", "d", ".", "f", "i", "c", "l", "a", "b", ".", "f", "l", "b", "+", "z", "i", "p">>>>,
          <<<<".", "z", "f", "c">>, <<"a", "p", "p", "l", "i", "c", "a", "t", "i", "o", "n", "/", "v", "n", "d", ".", "f", "i", "l", "m", "i", "t", ".", "z", "f", "c">>>>,
          <<<<".", "g", "p", "h">>, <<"a", "p", "p", "l", "i", "c", "a", "t", "i", "o", "n", "/", "v", "n", "d", ".", "F", "l", "o", "G", "r", "a", "p", "h", "I", "t">>>>,
          <<<<".", "f", "t", "c">>, <<"a", "p", "p", "l", "i", "c", "a", "t", "i", "o", "n", "/", "v", "n", "d", ".", "f", "l", "u", "x", "t", "i", "m", "e", ".", "c", "l", "i", "p">>>>,
          <<<<".", "s", "f", "d">>, <<"a", "p", "p", "l", "i", "c", "a", "t", "i", "o", "n", "/", "v", "n", "d", ".", "f", "o", "n", "t", "-", "f", "o", "n", "t", "f", "o", "r", "g", "e", "-", "s", "f", "d">>>>,
          <<<<".", "f", "m">>, <<"a", "p", "p", "l", "i", "c", "a", "t", "i", "o", "n", "/", "x", "-", "m", "a", "k", "e", "r">>>>,
          <<<<".", "f", "s", "c">>, <<"a", "p", "p", "l", "i", "c", "a", "t", "i", "o", "n", "/", "v", "n", "d", ".", "f", "s", "c", ".", "w", "e", "b", "l", "a", "u", "n", "c", "h">>>>,
          <<<<".", "o", "a", "s">>, <<"a", "p", "p", "l", "i", "c", "a", "t", "i", "o", "n", "/", "v", "n", "d", ".", "f", "u", "j", "i", "t", "s", "u", ".", "o", "a", "s", "y", "s">>>>,
          <<<<".", "o", "a", "2">>, <<"a", "p", "p", "l", "i", "c", "a", "t", "i", "o", "n", "/", "v", "n", "d", ".", "f", "u", "j", "i", "t", "s", "u", ".", "o", "a", "s", "y", "s", "2">>>>,
          <<<<".", "o", "a", "3">>, <<"a", "p", "p", "l", "i", "c", "a", "t", "i", "o", "n", "/", "v", "n", "d", ".", "f", "u", "j", "i", "t", "s", "u", ".", "o", "a", "s", "y", "s", "3">>>>,
          <<<<".", "f", "g", "5">>, <<"a", "p", "p", "l", "i", "c", "a", "t", "i", "o", "n", "/", "v", "n", "d", ".", "f", "u", "j", "i", "t", "s", "u", ".", "o", "a", "s", "y", "s", "g", "p">>>>,
          <<<<".", "b", "h", "2">>, <<"a", "p", "p", "l", "i", "c", "a", "t", "i", "o", "n", "/", "v", "n", "d", ".", "f", "u", "j", "i", "t", "s", "u", ".", "o", "a", "s", "y", "s", "p", "r", "s">>>>,
          <<<<".", "d", "d", "d">>, <<"a", "p", "p", "l", "i", "c", "a", "t", "i", "o", "n", "/", "v", "n", "d", ".", "f", "u", "j", "i", "x", "e", "r", "o", "x", ".", "d", "d", "d">>>>,
          <<<<".", "x", "d", "w">>, <<"a", "p", "p", "l", "i", "c", "a", "t", "i", "o", "n", "/", "v", "n", "d", ".", "f", "u", "j", "i", "x", "e", "r", "o", "x", ".", "d", "o", "c", "u", "w", "o", "r", "k", "s">>>>,
          <<<<".", "x", "b", "d">>, <<"a", "p", "p", "l", "i", "c", "a", "t", "i", "o", "n", "/", "v", "n", "d", ".", "f", "u", "j", "i", "x", "e", "r", "o", "x", ".", "d", "o", "c", "u", "w", "o", "r", "k", "s", ".", "b", "i", "n", "d", "e", "r">>>>,
          <<<<".", "x", "c", "t">>, <<"a", "p", "p", "l", "i", "c", "a", "t", "i", "o", "n", "/", "v", "n", "d", ".", "f", "u", "j", "i", "x", "e", "r", "o", "x", ".", "d", "o", "c", "u", "w", "o", "r", "k", "s", ".", "c", "o", "n", "t", "a", "i", "n", "e", "r">>>>,
          <<<<".", "f", "z", "s">>, <<"a", "p", "p", "l", "i", "c", "a", "t", "i", "o", "n", "/", "v", "n", "d", ".", "f", "u", "z", "z", "y", "s", "h", "e", "e", "t">>>>,
          <<<<".", "t", "x", "d">>, <<"a", "p", "p", "l", "i", "c", "a", "t", "i", "o", "n", "/", "v", "n", "d", ".", "g", "e", "n", "o", "m", "a", "t", "i", "x", ".", "t", "u", "x", "e", "d", "o">>>>,
          <<<<".", "g", "e", "n", "o", "z", "i", "p">>, <<"a", "p", "p", "l", "i", "c", "a", "t", "i", "o", "n", "/", "v", "n", "d", ".", "g", "e", "n", "o", "z", "i", "p">>>>,
          <<<<".", "g", "r", "d">>, <<"a", "p", "p", "l", "i", "c", "a", "t", "i", "o", "n", "/", "v", "n", "d", ".", "g", "e", "n", "t", "i", "c", "s", ".", "g", "r", "d", "+", "j", "s", "o", "n">>>>,
          <<<<".", "e", "b", "u", "i", "l", "d">>, <<"a", "p", "p", "l", "i", "c", "a", "t", "i", "o", "n", "/", "v", "n", "d", ".", "g", "e", "n", "t", "o", "o", ".", "e", "b", "u", "i", "l", "d">>>>,
          <<<<".", "e", "c", "l", "a", "s", "s">>, <<"a", "p", "p", "l", "i", "c", "a", "t", "i", "o", "n", "/", "v", "n", "d", ".", "g", "e", "n", "t", "o", "o", ".", "e", "c", "l", "a", "s", "s">>>>,
          <<<<".", "g", "p", "k", "g", ".", "t", "a", "r">>, <<"a", "p", "p", "l", "i", "c", "a", "t", "i", "o", "n", "/", "v", "n", "d", ".", "g", "e", "n", "t", "o", "o", ".", "g", "p", "k", "g">>>>,
          <<<<".", "x", "p", "a", "k">>, <<"a", "p", "p", "l", "i", "c", "a", "t", "i", "o", "n", "/", "v", "n", "d", ".", "g", "e", "n", "t", "o", "o", ".", "x", "p", "a", "k">>>>,
          <<<<".", "g", "g", "b">>, <<"a", "p", "p", "l", "i", "c", "a", "t", "i", "o", "n", "/", "v", "n", "d", ".", "g", "e", "o", "g", "e", "b", "r", "a", ".", "f", "i", "l", "e">>>>,
          <<<<".", "g", "g", "s">>, <<"a", "p", "p", "l", "i", "c", "a", "t", "i", "o", "n", "/", "v", "n", "d", ".", "g", "e", "o", "g", "e", "b", "r", "a", ".", "s", "l", "i", "d", "e", "s">>>>,
          <<<<".", "g", "g", "t">>, <<"a", "p", "p", "l", "i", "c", "a", "t", "i", "o", "n", "/", "v", "n", "d", ".", "g", "e", "o", "g", "e", "b", "r", "a", ".", "t", "o", "o", "l">>>>,
          <<<<".", "g", "e", "x">>, <<"a", "p", "p", "l", "i", "c", "a", "t", "i", "o", "n", "/", "v", "n", "d", ".", "g", "e", "o", "m", "e", "t", "r", "y", "-", "e", "x", "p", "l", "o", "r", "e", "r">>>>,
          <<<<".", "g", "r", "e">>, <<"a", "p", "p", "l", "i", "c", "a", "t", "i", "o", "n", "/", "v", "n", "d", ".", "g", "e", "o", "m", "e", "t", "r", "y", "-", "e", "x", "p", "l", "o", "r", "e", "r">>>>,
          <<<<".", "g", "x", "t">>, <<"a", "p", "p", "l", "i", "c", "a", "t", "i", "o", "n", "/", "v", "n", "d", ".", "g", "e", "o", "n", "e", "x", "t">>>>,
          <<<<".", "g", "2", "w">>, <<"a", "p", "p", "l", "i", "c", "a", "t", "i", "o", "n", "/", "v", "n", "d", ".", "g", "e", "o", "p", "l", "a", "n">>>>,
          <<<<".", "g", "3", "w">>, <<"a", "p", "p", "l", "i", "c", "a", "t", "i", "o", "n", "/", "v", "n", "d", ".", "g", "e", "o", "s", "p", "a", "c", "e">>>>,
          <<<<".", "k", "m", "l">>, <<"a", "p", "p", "l", "i", "c", "a", "t", "i", "o", "n", "/", "v", "n", "d", ".", "g", "o", "o", "g", "l", "e", "-", "e", "a", "r", "t", "h", ".", "k", "m", "l", "+", "x", "m", "l">>>>,
          <<<<".", "k", "m", "z">>, <<"a", "p", "p", "l", "i", "c", "a", "t", "i", "o", "n", "/", "v", "n", "d", ".", "g", "o", "o", "g", "l", "e", "-", "e", "a", "r", "t", "h", ".", "k", "m", "z">>>>,
          <<<<".", "g", "q", "f">>, <<"a", "p", "p", "l", "i", "c", "a", "t", "i", "o", "n", "/", "v", "n", "d", ".", "g", "r", "a", "f", "e", "q">>>>,
          <<<<".", "g", "q", "s">>, <<"a", "p", "p", "l", "i", "c", "a", "t", "i", "o", "n", "/", "v", "n", "d", ".", "g", "r", "a", "f", "e", "q">>>>,
          <<<<".", "g", "a", "c">>, <<"a", "p", "p", "l", "i", "c", "a", "t", "i", "o", "n", "/", "v", "n", "d", ".", "g", "r", "o", "o", "v", "e", "-", "a", "c", "c", "o", "u", "n", "t">>>>,
          <<<<".", "g", "h", "f">>, <<"a", "p", "p", "l", "i", "c", "a", "t", "i", "o", "n", "/", "v", "n", "d", ".", "g", "r", "o", "o", "v", "e", "-", "h", "e", "l", "p">>>>,
          <<<<".", "g", "i", "m">>, <<"a", "p", "p", "l", "i", "c", "a", "t", "i", "o", "n", "/", "v", "n", "d", ".", "g", "r", "o", "o", "v", "e", "-", "i", "d", "e", "n", "t", "i", "t", "y", "-", "m", "e", "s", "s", "a", "g", "e">>>>,
          <<<<".", "g", "r", "v">>, <<"a", "p", "p", "l", "i", "c", "a", "t", "i", "o", "n", "/", "v", "n", "d", ".", "g", "r", "o", "o", "v", "e", "-", "i", "n", "j", "e", "c", "t", "o", "r">>>>,
          <<<<".", "g", "t", "m">>, <<"a", "p", "p", "l", "i", "c", "a", "t", "i", "o", "n", "/", "v", "n", "d", ".", "g", "r", "o", "o", "v", "e", "-", "t", "o", "o", "l", "-", "m", "e", "s", "s", "a", "g", "e">>>>,
          <<<<".", "t", "p", "l">>, <<"a", "p", "p", "l", "i", "c", "a", "t", "i", "o", "n", "/", "v", "n", "d", ".", "g", "r", "o", "o", "v", "e", "-", "t", "o", "o", "l", "-", "t", "e", "m", "p", "l", "a", "t", "e">>>>,
          <<<<".", "v", "c", "g">>, <<"a", "p", "p", "l", "i", "c", "a", "t", "i", "o", "n", "/", "v", "n", "d", ".", "g", "r", "o", "o", "v", "e", "-", "v", "c", "a", "r", "d">>>>,
          <<<<".", "h", "a", "l">>, <<"a", "p", "p", "l", "i", "c", "a", "t", "i", "o", "n", "/", "v", "n", "d", ".", "h", "a", "l", "+", "x", "m", "l">>>>,
          <<<<".", "z", "m", "m">>, <<"a", "p", "p", "l", "i", "c", "a", "t", "i", "o", "n", "/", "v", "n", "d", ".", "H", "a", "n", "d", "H", "e", "l", "d", "-", "E", "n", "t", "e", "r", "t", "a", "i", "n", "m", "e", "n", "t", "+", "x", "m", "l">>>>,
          <<<<".", "h", "b", "c", "i">>, <<"a", "p", "p", "l", "i", "c", "a", "t", "i", "o", "n", "/", "v", "n", "d", ".", "h", "b", "c", "i">>>>,
          <<<<".", "h", "b", "c">>, <<"a", "p", "p", "l", "i", "c", "a", "t", "i", "o", "n", "/", "v", "n", "d", ".", "h", "b", "c", "i">>>>,
          <<<<".", "k", "o", "m">>, <<"a", "p", "p", "l", "i", "c", "a", "t", "i", "o", "n", "/", "v", "n", "d", ".", "h", "b", "c", "i">>>>,
          <<<<".", "u", "p", "a">>, <<"a", "p", "p", "l", "i", "c", "a", "t", "i", "o", "n", "/", "v", "n", "d", ".", "h", "b", "c", "i">>>>,
          <<<<".", "p", "k", "d">>, <<"a", "p", "p", "l", "i", "c", "a", "t", "i", "o", "n", "/", "v", "n", "d", ".", "h", "b", "c", "i">>>>,
          <<<<".", "b", "p", "d">>, <<"a", "p", "p", "l", "i", "c", "a", "t", "i", "o", "n", "/", "v", "n", "d", ".", "h", "b", "c", "i">>>>,
          <<<<".", "h", "d", "t">>, <<"a", "p", "p", "l", "i", "c", "a", "t", "i", "o", "n", "/", "v", "n", "d", ".", "h", "d", "t">>>>,
          <<<<".", "l", "e", "s">>, <<"a", "p", "p", "l", "i", "c", "a", "t", "i", "o", "n", "/", "v", "n", "d", ".", "h", "h", "e", ".", "l", "e", "s", "s", "o", "n", "-", "p", "l", "a", "y", "e", "r">>>>,
          <<<<".", "h", "p", "g", "l">>, <<"a", "p", "p", "l", "i", "c", "a", "t", "i", "o", "n", "/", "v", "n", "d", ".", "h", "p", "-", "H", "P", "G", "L">>>>,
          <<<<".", "h", "p", "i">>, <<"a", "p", "p", "l", "i", "c", "a", "t", "i", "o", "n", "/", "v", "n", "d", ".", "h", "p", "-", "h", "p", "i", "d">>>>,
          <<<<".", "h", "p", "i", "d">>, <<"a", "p", "p", "l", "i", "c", "a", "t", "i", "o", "n", "/", "v", "n", "d", ".", "h", "p", "-", "h", "p", "i", "d">>>>,
          <<<<".", "h", "p", "s">>, <<"a", "p", "p", "l", "i", "c", "a", "t", "i", "o", "n", "/", "v", "n", "d", ".", "h", "p", "-", "h", "p", "s">>>>,
          <<<<".", "j", "l", "t">>, <<"a", "p", "p", "l", "i", "c", "a", "t", "i", "o", "n", "/", "v", "n", "d", ".", "h", "p", "-", "j", "l", "y", "t">>>>,
          <<<<".", "p", "c", "l">>, <<"a", "p", "p", "l", "i", "c", "a", "t", "i", "o", "n", "/", "v", "n", "d", ".", "h", "p", "-", "P", "C", "L">>>>,
          <<<<".", "s", "f", "d", "-", "h", "d", "s", "t", "x">>, <<"a", "p", "p", "l", "i", "c", "a", "t", "i", "o", "n", "/", "v", "n", "d", ".", "h", "y", "d", "r", "o", "s", "t", "a", "t", "i", "x", ".", "s", "o", "f", "-", "d", "a", "t", "a">>>>,
          <<<<".", "e", "m", "m">>, <<"a", "p", "p", "l", "i", "c", "a", "t", "i", "o", "n", "/", "v", "n", "d", ".", "i", "b", "m", ".", "e", "l", "e", "c", "t", "r", "o", "n", "i", "c", "-", "m", "e", "d", "i", "a">>>>,
          <<<<".", "m", "p", "y">>, <<"a", "p", "p", "l", "i", "c", "a", "t", "i", "o", "n", "/", "v", "n", "d", ".", "i", "b", "m", ".", "M", "i", "n", "i", "P", "a", "y">>>>,
          <<<<".", "i", "r", "m">>, <<"a", "p", "p", "l", "i", "c", "a", "t", "i", "o", "n", "/", "v", "n", "d", ".", "i", "b", "m", ".", "r", "i", "g", "h", "t", "s", "-", "m", "a", "n", "a", "g", "e", "m", "e", "n", "t">>>>,
          <<<<".", "s", "c">>, <<"a", "p", "p", "l", "i", "c", "a", "t", "i", "o", "n", "/", "v", "n", "d", ".", "i", "b", "m", ".", "s", "e", "c", "u", "r", "e", "-", "c", "o", "n", "t", "a", "i", "n", "e", "r">>>>,
          <<<<".", "i", "c", "c">>, <<"a", "p", "p", "l", "i", "c", "a", "t", "i", "o", "n", "/", "v", "n", "d", ".", "i", "c", "c", "p", "r", "o", "f", "i", "l", "e">>>>,
          <<<<".", "i", "c", "m">>, <<"a", "p", "p", "l", "i", "c", "a", "t", "i", "o", "n", "/", "v", "n", "d", ".", "i", "c", "c", "p", "r", "o", "f", "i", "l", "e">>>>,
          <<<<".", "1", "9", "0", "5", ".", "1">>, <<"a", "p", "p", "l", "i", "c", "a", "t", "i", "o", "n", "/", "v", "n", "d", ".", "i", "e", "e", "e", ".", "1", "9", "0", "5">>>>,
          <<<<".", "i", "g", "l">>, <<"a", "p", "p", "l", "i", "c", "a", "t", "i", "o", "n", "/", "v", "n", "d", ".", "i", "g", "l", "o", "a", "d", "e", "r">>>>,
          <<<<".", "i", "m", "f">>, <<"a", "p", "p", "l", "i", "c", "a", "t", "i", "o", "n", "/", "v", "n", "d", ".", "i", "m", "a", "g", "e", "m", "e", "t", "e", "r", ".", "f", "o", "l", "d", "e", "r", "+", "z", "i", "p">>>>,
          <<<<".", "i", "m", "i">>, <<"a", "p", "p", "l", "i", "c", "a", "t", "i", "o", "n", "/", "v", "n", "d", ".", "i", "m", "a", "g", "e", "m", "e", "t", "e", "r", ".", "i", "m", "a", "g", "e", "+", "z", "i", "p">>>>,
          <<<<".", "i", "v", "p">>, <<"a", "p", "p", "l", "i", "c", "a", "t", "i", "o", "n", "/", "v", "n", "d", ".", "i", "m", "m", "e", "r", "v", "i", "s", "i", "o", "n", "-", "i", "v", "p">>>>,
          <<<<".", "i", "v", "u">>, <<"a", "p", "p", "l", "i", "c", "a", "t", "i", "o", "n", "/", "v", "n", "d", ".", "i", "m", "m", "e", "r", "v", "i", "s", "i", "o", "n", "-", "i", "v", "u">>>>,
          <<<<".", "i", "m", "s", "c", "c">>, <<"a", "p", "p", "l", "i", "c", "a", "t", "i", "o", "n", "/", "v", "n", "d", ".", "i", "m", "s", ".", "i", "m", "s", "c", "c", "v", "1", "p", "1">>>>,
          <<<<".", "i", "g", "m">>, <<"a", "p", "p", "l", "i", "c", "a", "t", "i", "o", "n", "/", "v", "n", "d", ".", "i", "n", "s", "o", "r", "s", ".", "i", "g", "m">>>>,
          <<<<".", "x", "p", "w">>, <<"a", "p", "p", "l", "i", "c", "a", "t", "i", "o", "n", "/", "v", "n", "d", ".", "i", "n", "t", "e", "r", "c", "o", "n", ".", "f", "o", "r", "m", "n", "e", "t">>>>,
          <<<<".", "x", "p", "x">>, <<"a", "p", "p", "l", "i", "c", "a", "t", "i", "o", "n", "/", "v", "n", "d", ".", "i", "n", "t", "e", "r", "c", "o", "n", ".", "f", "o", "r", "m", "n", "e", "t">>>>,
          <<<<".", "i", "2", "g">>, <<"a", "p", "p", "l", "i", "c", "a", "t", "i", "o", "n", "/", "v", "n", "d", ".", "i", "n", "t", "e", "r", "g", "e", "o">>>>,
          <<<<".", "q", "b", "o">>, <<"a", "p", "p", "l", "i", "c", "a", "t", "i", "o", "n", "/", "v", "n", "d", ".", "i", "n", "t", "u", ".", "q", "b", "o">>>>,
          <<<<".", "q", "f", "x">>, <<"a", "p", "p", "l", "i", "c", "a", "t", "i", "o", "n", "/", "v", "n", "d", ".", "i", "n", "t", "u", ".", "q", "f", "x">>>>,
          <<<<".", "c", "a", "r">>, <<"a", "p", "p", "l", "i", "c", "a", "t", "i", "o", "n", "/", "v", "n", "d", ".", "i", "p", "l", "d", ".", "c", "a", "r">>>>,
          <<<<".", "r", "c", "p", "r", "o", "f", "i", "l", "e">>, <<"a", "p", "p", "l", "i", "c", "a", "t", "i", "o", "n", "/", "v", "n", "d", ".", "i", "p", "u", "n", "p", "l", "u", "g", "g", "e", "d", ".", "r", "c", "p", "r", "o", "f", "i", "l", "e">>>>,
          <<<<".", "i", "r", "p">>, <<"a", "p", "p", "l", "i", "c", "a", "t", "i", "o", "n", "/", "v", "n", "d", ".", "i", "r", "e", "p", "o", "s", "i", "t", "o", "r", "y", ".", "p", "a", "c", "k", "a", "g", "e", "+", "x", "m", "l">>>>,
          <<<<".", "x", "p", "r">>, <<"a", "p", "p", "l", "i", "c", "a", "t", "i", "o", "n", "/", "v", "n", "d", ".", "i", "s", "-", "x", "p", "r">>>>,
          <<<<".", "f", "c", "s">>, <<"a", "p", "p", "l", "i", "c", "a", "t", "i", "o", "n", "/", "v", "n", "d", ".", "i", "s", "a", "c", ".", "f", "c", "s">>>>,
          <<<<".", "j", "a", "m">>, <<"a", "p", "p", "l", "i", "c", "a", "t", "i", "o", "n", "/", "v", "n", "d", ".", "j", "a", "m">>>>,
          <<<<".", "r", "m", "s">>, <<"a", "p", "p", "l", "i", "c", "a", "t", "i", "o", "n", "/", "v", "n", "d", ".", "j", "c", "p", ".", "j", "a", "v", "a", "m", "e", ".", "m", "i", "d", "l", "e", "t", "-", "r", "m", "s">>>>,
          <<<<".", "j", "i", "s", "p">>, <<"a", "p", "p", "l", "i", "c", "a", "t", "i", "o", "n", "/", "v", "n", "d", ".", "j", "i", "s", "p">>>>,
          <<<<".", "j", "o", "d", "a">>, <<"a", "p", "p", "l", "i", "c", "a", "t", "i", "o", "n", "/", "v", "n", "d", ".", "j", "o", "o", "s", "t", ".", "j", "o", "d", "a", "-", "a", "r", "c", "h", "i", "v", "e">>>>,
          <<<<".", "k", "t", "z">>, <<"a", "p", "p", "l", "i", "c", "a", "t", "i", "o", "n", "/", "v", "n", "d", ".", "k", "a", "h", "o", "o", "t", "z">>>>,
          <<<<".", "k", "t", "r">>, <<"a", "p", "p", "l", "i", "c", "a", "t", "i", "o", "n", "/", "v", "n", "d", ".", "k", "a", "h", "o", "o", "t", "z">>>>,
          <<<<".", "k", "a", "r", "b", "o", "n">>, <<"a", "p", "p", "l", "i", "c", "a", "t", "i", "o", "n", "/", "v", "n", "d", ".", "k", "d", "e", ".", "k", "a", "r", "b", "o", "n">>>>,
          <<<<".", "c", "h", "r", "t">>, <<"a", "p", "p", "l", "i", "c", "a", "t", "i", "o", "n", "/", "v", "n", "d", ".", "k", "d", "e", ".", "k", "c", "h", "a", "r", "t">>>>,
          <<<<".", "k", "f", "o">>, <<"a", "p", "p", "l", "i", "c", "a", "t", "i", "o", "n", "/", "v", "n", "d", ".", "k", "d", "e", ".", "k", "f", "o", "r", "m", "u", "l", "a">>>>,
          <<<<".", "f", "l", "w">>, <<"a", "p", "p", "l", "i", "c", "a", "t", "i", "o", "n", "/", "v", "n", "d", ".", "k", "d", "e", ".", "k", "i", "v", "i", "o">>>>,
          <<<<".", "k", "o", "n">>, <<"a", "p", "p", "l", "i", "c", "a", "t", "i", "o", "n", "/", "v", "n", "d", ".", "k", "d", "e", ".", "k", "o", "n", "t", "o", "u", "r">>>>,
          <<<<".", "k", "p", "r">>, <<"a", "p", "p", "l", "i", "c", "a", "t", "i", "o", "n", "/", "v", "n", "d", ".", "k", "d", "e", ".", "k", "p", "r", "e", "s", "e", "n", "t", "e", "r">>>>,
          <<<<".", "k", "p", "t">>, <<"a", "p", "p", "l", "i", "c", "a", "t", "i", "o", "n", "/", "v", "n", "d", ".", "k", "d", "e", ".", "k", "p", "r", "e", "s", "e", "n", "t", "e", "r">>>>,
          <<<<".", "k", "s", "p">>, <<"a", "p", "p", "l", "i", "c", "a", "t", "i", "o", "n", "/", "v", "n", "d", ".", "k", "d", "e", ".", "k", "s", "p", "r", "e", "a", "d">>>>,
          <<<<".", "k", "w", "d">>, <<"a", "p", "p", "l", "i", "c", "a", "t", "i", "o", "n", "/", "v", "n", "d", ".", "k", "d", "e", ".", "k", "w", "o", "r", "d">>>>,
          <<<<".", "k", "w", "t">>, <<"a", "p", "p", "l", "i", "c", "a", "t", "i", "o", "n", "/", "v", "n", "d", ".", "k", "d", "e", ".", "k", "w", "o", "r", "d">>>>,
          <<<<".", "h", "t", "k", "e">>, <<"a", "p", "p", "l", "i", "c", "a", "t", "i", "o", "n", "/", "v", "n", "d", ".", "k", "e", "n", "a", "m", "e", "a", "a", "p", "p">>>>,
          <<<<".", "k", "i", "a">>, <<"a", "p", "p", "l", "i", "c", "a", "t", "i", "o", "n", "/", "v", "n", "d", ".", "k", "i", "d", "s", "p", "i", "r", "a", "t", "i", "o", "n">>>>,
          <<<<".", "k", "n", "e">>, <<"a", "p", "p", "l", "i", "c", "a", "t", "i", "o", "n", "/", "v", "n", "d", ".", "K", "i", "n", "a", "r">>>>,
          <<<<".", "k", "n", "p">>, <<"a", "p", "p", "l", "i", "c", "a", "t", "i", "o", "n", "/", "v", "n", "d", ".", "K", "i", "n", "a", "r">>>>,
          <<<<".", "s", "d", "f">>, <<"c", "h", "e", "m", "i", "c", "a", "l", "/", "x", "-", "m", "d", "l", "-", "s", "d", "f", "i", "l", "e">>>>,
          <<<<".", "s", "k", "p">>, <<"a", "p", "p", "l", "i", "c", "a", "t", "i", "o", "n", "/", "v", "n", "d", ".", "k", "o", "a", "n">>>>,
          <<<<".", "s", "k", "d">>, <<"a", "p", "p", "l", "i", "c", "a", "t", "i", "o", "n", "/", "v", "n", "d", ".", "k", "o", "a", "n">>>>,
          <<<<".", "s", "k", "m">>, <<"a", "p", "p", "l", "i", "c", "a", "t", "i", "o", "n", "/", "v", "n", "d", ".", "k", "o", "a", "n">>>>,
          <<<<".", "s", "k", "t">>, <<"a", "p", "p", "l", "i", "c", "a", "t", "i", "o", "n", "/", "v", "n", "d", ".", "k", "o", "a", "n">>>>,
          <<<<".", "s", "s", "e">>, <<"a", "p", "p", "l", "i", "c", "a", "t", "i", "o", "n", "/", "v", "n", "d", ".", "k", "o", "d", "a", "k", "-", "d", "e", "s", "c", "r", "i", "p", "t", "o", "r">>>>,
          <<<<".", "l", "a", "s">>, <<"a", "p", "p", "l", "i", "c", "a", "t", "i", "o", "n", "/", "v", "n", "d", ".", "l", "a", "s">>>>,
          <<<<".", "l", "a", "s", "j", "s", "o", "n">>, <<"a", "p", "p", "l", "i", "c", "a", "t", "i", "o", "n", "/", "v", "n", "d", ".", "l", "a", "s", ".", "l", "a", "s", "+", "j", "s", "o", "n">>>>,
          <<<<".", "l", "a", "s", "x", "m", "l">>, <<"a", "p", "p", "l", "i", "c", "a", "t", "i", "o", "n", "/", "v", "n", "d", ".", "l", "a", "s", ".", "l", "a", "s", "+", "x", "m", "l">>>>,
          <<<<".", "l", "b", "d">>, <<"a", "p", "p", "l", "i", "c", "a", "t", "i", "o", "n", "/", "v", "n", "d", ".", "l", "l", "a", "m", "a", "g", "r", "a", "p", "h", "i", "c", "s", ".", "l", "i", "f", "e", "-", "b", "a", "l", "a", "n", "c", "e", ".", "d", "e", "s", "k", "t", "o", "p">>>>,
          <<<<".", "l", "b", "e">>, <<"a", "p", "p", "l", "i", "c", "a", "t", "i", "o", "n", "/", "v", "n", "d", ".", "l", "l", "a", "m", "a", "g", "r", "a", "p", "h", "i", "c", "s", ".", "l", "i", "f", "e", "-", "b", "a", "l", "a", "n", "c", "e", ".", "e", "x", "c", "h", "a", "n", "g", "e", "+", "x", "m", "l">>>>,
          <<<<".", "l", "c", "s">>, <<"a", "p", "p", "l", "i", "c", "a", "t", "i", "o", "n", "/", "v", "n", "d", ".", "l", "o", "g", "i", "p", "i", "p", "e", ".", "c", "i", "r", "c", "u", "i", "t", "+", "z", "i", "p">>>>,
          <<<<".", "l", "c", "a">>, <<"a", "p", "p", "l", "i", "c", "a", "t", "i", "o", "n", "/", "v", "n", "d", ".", "l", "o", "g", "i", "p", "i", "p", "e", ".", "c", "i", "r", "c", "u", "i", "t", "+", "z", "i", "p">>>>,
          <<<<".", "l", "o", "o", "m">>, <<"a", "p", "p", "l", "i", "c", "a", "t", "i", "o", "n", "/", "v", "n", "d", ".", "l", "o", "o", "m">>>>,
          <<<<".", "1", "2", "3">>, <<"a", "p", "p", "l", "i", "c", "a", "t", "i", "o", "n", "/", "v", "n", "d", ".", "l", "o", "t", "u", "s", "-", "1", "-", "2", "-", "3">>>>,
          <<<<".", "w", "k", "4">>, <<"a", "p", "p", "l", "i", "c", "a", "t", "i", "o", "n", "/", "v", "n", "d", ".", "l", "o", "t", "u", "s", "-", "1", "-", "2", "-", "3">>>>,
          <<<<".", "w", "k", "3">>, <<"a", "p", "p", "l", "i", "c", "a", "t", "i", "o", "n", "/", "v", "n", "d", ".", "l", "o", "t", "u", "s", "-", "1", "-", "2", "-", "3">>>>,
          <<<<".", "w", "k", "1">>, <<"a", "p", "p", "l", "i", "c", "a", "t", "i", "o", "n", "/", "v", "n", "d", ".", "l", "o", "t", "u", "s", "-", "1", "-", "2", "-", "3">>>>,
          <<<<".", "a", "p", "r">>, <<"a", "p", "p", "l", "i", "c", "a", "t", "i", "o", "n", "/", "v", "n", "d", ".", "l", "o", "t", "u", "s", "-", "a", "p", "p", "r", "o", "a", "c", "h">>>>,
          <<<<".", "v", "e", "w">>, <<"a", "p", "p", "l", "i", "c", "a", "t", "i", "o", "n", "/", "v", "n", "d", ".", "l", "o", "t", "u", "s", "-", "a", "p", "p", "r", "o", "a", "c", "h">>>>,
          <<<<".", "p", "r", "z">>, <<"a", "p", "p", "l", "i", "c", "a", "t", "i", "o", "n", "/", "v", "n", "d", ".", "l", "o", "t", "u", "s", "-", "f", "r", "e", "e", "l", "a", "n", "c", "e">>>>,
          <<<<".", "p", "r", "e">>, <<"a", "p", "p", "l", "i", "c", "a", "t", "i", "o", "n", "/", "v", "n", "d", ".", "l", "o", "t", "u", "s", "-", "f", "r", "e", "e", "l", "a", "n", "c", "e">>>>,
          <<<<".", "n", "s", "f">>, <<"a", "p", "p", "l", "i", "c", "a", "t", "i", "o", "n", "/", "v", "n", "d", ".", "l", "o", "t", "u", "s", "-", "n", "o", "t", "e", "s">>>>,
          <<<<".", "n", "t", "f">>, <<"a", "p", "p", "l", "i", "c", "a", "t", "i", "o", "n", "/", "v", "n", "d", ".", "l", "o", "t", "u", "s", "-", "n", "o", "t", "e", "s">>>>,
          <<<<".", "n", "d", "l">>, <<"a", "p", "p", "l", "i", "c", "a", "t", "i", "o", "n", "/", "v", "n", "d", ".", "l", "o", "t", "u", "s", "-", "n", "o", "t", "e", "s">>>>,
          <<<<".", "n", "s", "4">>, <<"a", "p", "p", "l", "i", "c", "a", "t", "i", "o", "n", "/", "v", "n", "d", ".", "l", "o", "t", "u", "s", "-", "n", "o", "t", "e", "s">>>>,
          <<<<".", "n", "s", "3">>, <<"a", "p", "p", "l", "i", "c", "a", "t", "i", "o", "n", "/", "v", "n", "d", ".", "l", "o", "t", "u", "s", "-", "n", "o", "t", "e", "s">>>>,
          <<<<".", "n", "s", "2">>, <<"a", "p", "p", "l", "i", "c", "a", "t", "i", "o", "n", "/", "v", "n", "d", ".", "l", "o", "t", "u", "s", "-", "n", "o", "t", "e", "s">>>>,
          <<<<".", "n", "s", "h">>, <<"a", "p", "p", "l", "i", "c", "a", "t", "i", "o", "n", "/", "v", "n", "d", ".", "l", "o", "t", "u", "s", "-", "n", "o", "t", "e", "s">>>>,
          <<<<".", "n", "s", "g">>, <<"a", "p", "p", "l", "i", "c", "a", "t", "i", "o", "n", "/", "v", "n", "d", ".", "l", "o", "t", "u", "s", "-", "n", "o", "t", "e", "s">>>>,
          <<<<".", "o", "r", "3">>, <<"a", "p", "p", "l", "i", "c", "a", "t", "i", "o", "n", "/", "v", "n", "d", ".", "l", "o", "t", "u", "s", "-", "o", "r", "g", "a", "n", "i", "z", "e", "r">>>>,
          <<<<".", "o", "r", "2">>, <<"a", "p", "p", "l", "i", "c", "a", "t", "i", "o", "n", "/", "v", "n", "d", ".", "l", "o", "t", "u", "s", "-", "o", "r", "g", "a", "n", "i", "z", "e", "r">>>>,
          <<<<".", "o", "r", "g">>, <<"a", "p", "p", "l", "i", "c", "a", "t", "i", "o", "n", "/", "v", "n", "d", ".", "l", "o", "t", "u", "s", "-", "o", "r", "g", "a", "n", "i", "z", "e", "r">>>>,
          <<<<".", "s", "c", "m">>, <<"a", "p", "p", "l", "i", "c", "a", "t", "i", "o", "n", "/", "v", "n", "d", ".", "l", "o", "t", "u", "s", "-", "s", "c", "r", "e", "e", "n", "c", "a", "m">>>>,
          <<<<".", "l", "w", "p">>, <<"a", "p", "p", "l", "i", "c", "a", "t", "i", "o", "n", "/", "v", "n", "d", ".", "l", "o", "t", "u", "s", "-", "w", "o", "r", "d", "p", "r", "o">>>>,
          <<<<".", "s", "a", "m">>, <<"a", "p", "p", "l", "i", "c", "a", "t", "i", "o", "n", "/", "v", "n", "d", ".", "l", "o", "t", "u", "s", "-", "w", "o", "r", "d", "p", "r", "o">>>>,
          <<<<".", "p", "o", "r", "t", "p", "k", "g">>, <<"a", "p", "p", "l", "i", "c", "a", "t", "i", "o", "n", "/", "v", "n", "d", ".", "m", "a", "c", "p", "o", "r", "t", "s", ".", "p", "o", "r", "t", "p", "k", "g">>>>,
          <<<<".", "m", "v", "t">>, <<"a", "p", "p", "l", "i", "c", "a", "t", "i", "o", "n", "/", "v", "n", "d", ".", "m", "a", "p", "b", "o", "x", "-", "v", "e", "c", "t", "o", "r", "-", "t", "i", "l", "e">>>>,
          <<<<".", "m", "d", "c">>, <<"a", "p", "p", "l", "i", "c", "a", "t", "i", "o", "n", "/", "v", "n", "d", ".", "m", "a", "r", "l", "i", "n", ".", "d", "r", "m", ".", "m", "d", "c", "f">>>>,
          <<<<".", "3", "t", "z">>, <<"a", "p", "p", "l", "i", "c", "a", "t", "i", "o", "n", "/", "v", "n", "d", ".", "m", "a", "x", "a", "r", ".", "a", "r", "c", "h", "i", "v", "e", ".", "3", "t", "z", "+", "z", "i", "p">>>>,
          <<<<".", "m", "m", "d", "b">>, <<"a", "p", "p", "l", "i", "c", "a", "t", "i", "o", "n", "/", "v", "n", "d", ".", "m", "a", "x", "m", "i", "n", "d", ".", "m", "a", "x", "m", "i", "n", "d", "-", "d", "b">>>>,
          <<<<".", "m", "c", "d">>, <<"a", "p", "p", "l", "i", "c", "a", "t", "i", "o", "n", "/", "v", "n", "d", ".", "m", "c", "d">>>>,
          <<<<".", "m", "c", "1">>, <<"a", "p", "p", "l", "i", "c", "a", "t", "i", "o", "n", "/", "v", "n", "d", ".", "m", "e", "d", "c", "a", "l", "c", "d", "a", "t", "a">>>>,
          <<<<".", "c", "d", "k", "e", "y">>, <<"a", "p", "p", "l", "i", "c", "a", "t", "i", "o", "n", "/", "v", "n", "d", ".", "m", "e", "d", "i", "a", "s", "t", "a", "t", "i", "o", "n", ".", "c", "d", "k", "e", "y">>>>,
          <<<<".", "r", "x", "t">>, <<"a", "p", "p", "l", "i", "c", "a", "t", "i", "o", "n", "/", "v", "n", "d", ".", "m", "e", "d", "i", "c", "a", "l", "h", "o", "l", "o", "d", "e", "c", "k", ".", "r", "e", "c", "o", "r", "d", "x", "r">>>>,
          <<<<".", "m", "w", "f">>, <<"a", "p", "p", "l", "i", "c", "a", "t", "i", "o", "n", "/", "v", "n", "d", ".", "M", "F", "E", "R">>>>,
          <<<<".", "m", "f", "m">>, <<"a", "p", "p", "l", "i", "c", "a", "t", "i", "o", "n", "/", "v", "n", "d", ".", "m", "f", "m", "p">>>>,
          <<<<".", "f", "l", "o">>, <<"a", "p", "p", "l", "i", "c", "a", "t", "i", "o", "n", "/", "v", "n", "d", ".", "m", "i", "c", "r", "o", "g", "r", "a", "f", "x", ".", "f", "l", "o">>>>,
          <<<<".", "i", "g", "x">>, <<"a", "p", "p", "l", "i", "c", "a", "t", "i", "o", "n", "/", "v", "n", "d", ".", "m", "i", "c", "r", "o", "g", "r", "a", "f", "x", ".", "i", "g", "x">>>>,
          <<<<".", "d", "a", "f">>, <<"a", "p", "p", "l", "i", "c", "a", "t", "i", "o", "n", "/", "v", "n", "d", ".", "M", "o", "b", "i", "u", "s", ".", "D", "A", "F">>>>,
          <<<<".", "d", "i", "s">>, <<"a", "p", "p", "l", "i", "c", "a", "t", "i", "o", "n", "/", "v", "n", "d", ".", "M", "o", "b", "i", "u", "s", ".", "D", "I", "S">>>>,
          <<<<".", "m", "b", "k">>, <<"a", "p", "p", "l", "i", "c", "a", "t", "i", "o", "n", "/", "v", "n", "d", ".", "M", "o", "b", "i", "u", "s", ".", "M", "B", "K">>>>,
          <<<<".", "m", "q", "y">>, <<"a", "p", "p", "l", "i", "c", "a", "t", "i", "o", "n", "/", "v", "n", "d", ".", "M", "o", "b", "i", "u", "s", ".", "M", "Q", "Y">>>>,
          <<<<".", "m", "s", "l">>, <<"a", "p", "p", "l", "i", "c", "a", "t", "i", "o", "n", "/", "v", "n", "d", ".", "M", "o", "b", "i", "u", "s", ".", "M", "S", "L">>>>,
          <<<<".", "p", "l", "c">>, <<"a", "p", "p", "l", "i", "c", "a", "t", "i", "o", "n", "/", "v", "n", "d", ".", "M", "o", "b", "i", "u", "s", ".", "P", "L", "C">>>>,
          <<<<".", "t", "x", "f">>, <<"a", "p", "p", "l", "i", "c", "a", "t", "i", "o", "n", "/", "v", "n", "d", ".", "M", "o", "b", "i", "u", "s", ".", "T", "X", "F">>>>,
          <<<<".", "m", "p", "n">>, <<"a", "p", "p", "l", "i", "c", "a", "t", "i", "o", "n", "/", "v", "n", "d", ".", "m", "o", "p", "h", "u", "n", ".", "a", "p", "p", "l", "i", "c", "a", "t", "i", "o", "n">>>>,
          <<<<".", "m", "p", "c">>, <<"c", "h", "e", "m", "i", "c", "a", "l", "/", "x", "-", "m", "o", "p", "a", "c", "-", "i", "n", "p", "u", "t">>>>,
          <<<<".", "x", "u", "l">>, <<"a", "p", "p", "l", "i", "c", "a", "t", "i", "o", "n", "/", "v", "n", "d", ".", "m", "o", "z", "i", "l", "l", "a", ".", "x", "u", "l", "+", "x", "m", "l">>>>,
          <<<<".", "3", "m", "f">>, <<"a", "p", "p", "l", "i", "c", "a", "t", "i", "o", "n", "/", "v", "n", "d", ".", "m", "s", "-", "3", "m", "f", "d", "o", "c", "u", "m", "e", "n", "t">>>>,
          <<<<".", "c", "i", "l">>, <<"a", "p", "p", "l", "i", "c", "a", "t", "i", "o", "n", "/", "v", "n", "d", ".", "m", "s", "-", "a", "r", "t", "g", "a", "l", "r", "y">>>>,
          <<<<".", "a", "s", "f">>, <<"a", "p", "p", "l", "i", "c", "a", "t", "i", "o", "n", "/", "v", "n", "d", ".", "m", "s", "-", "a", "s", "f">>>>,
          <<<<".", "c", "a", "b">>, <<"a", "p", "p", "l", "i", "c", "a", "t", "i", "o", "n", "/", "v", "n", "d", ".", "m", "s", "-", "c", "a", "b", "-", "c", "o", "m", "p", "r", "e", "s", "s", "e", "d">>>>,
          <<<<".", "x", "l", "m">>, <<"a", "p", "p", "l", "i", "c", "a", "t", "i", "o", "n", "/", "v", "n", "d", ".", "m", "s", "-", "e", "x", "c", "e", "l">>>>,
          <<<<".", "x", "l", "a">>, <<"a", "p", "p", "l", "i", "c", "a", "t", "i", "o", "n", "/", "v", "n", "d", ".", "m", "s", "-", "e", "x", "c", "e", "l">>>>,
          <<<<".", "x", "l", "c">>, <<"a", "p", "p", "l", "i", "c", "a", "t", "i", "o", "n", "/", "v", "n", "d", ".", "m", "s", "-", "e", "x", "c", "e", "l">>>>,
          <<<<".", "x", "l", "t">>, <<"a", "p", "p", "l", "i", "c", "a", "t", "i", "o", "n", "/", "v", "n", "d", ".", "m", "s", "-", "e", "x", "c", "e", "l">>>>,
          <<<<".", "x", "l", "w">>, <<"a", "p", "p", "l", "i", "c", "a", "t", "i", "o", "n", "/", "v", "n", "d", ".", "m", "s", "-", "e", "x", "c", "e", "l">>>>,
          <<<<".", "x", "l", "a", "m">>, <<"a", "p", "p", "l", "i", "c", "a", "t", "i", "o", "n", "/", "v", "n", "d", ".", "m", "s", "-", "e", "x", "c", "e", "l", ".", "a", "d", "d", "i", "n", ".", "m", "a", "c", "r", "o", "E", "n", "a", "b", "l", "e", "d", ".", "1", "2">>>>,
          <<<<".", "x", "l", "s", "b">>, <<"a", "p", "p", "l", "i", "c", "a", "t", "i", "o", "n", "/", "v", "n", "d", ".", "m", "s", "-", "e", "x", "c", "e", "l", ".", "s", "h", "e", "e", "t", ".", "b", "i", "n", "a", "r", "y", ".", "m", "a", "c", "r", "o", "E", "n", "a", "b", "l", "e", "d", ".", "1", "2">>>>,
          <<<<".", "x", "l", "s", "m">>, <<"a", "p", "p", "l", "i", "c", "a", "t", "i", "o", "n", "/", "v", "n", "d", ".", "m", "s", "-", "e", "x", "c", "e", "l", ".", "s", "h", "e", "e", "t", ".", "m", "a", "c", "r", "o", "E", "n", "a", "b", "l", "e", "d", ".", "1", "2">>>>,
          <<<<".", "x", "l", "t", "m">>, <<"a", "p", "p", "l", "i", "c", "a", "t", "i", "o", "n", "/", "v", "n", "d", ".", "m", "s", "-", "e", "x", "c", "e", "l", ".", "t", "e", "m", "p", "l", "a", "t", "e", ".", "m", "a", "c", "r", "o", "E", "n", "a", "b", "l", "e", "d", ".", "1", "2">>>>,
          <<<<".", "e", "o", "t">>, <<"a", "p", "p", "l", "i", "c", "a", "t", "i", "o", "n", "/", "v", "n", "d", ".", "m", "s", "-", "f", "o", "n", "t", "o", "b", "j", "e", "c", "t">>>>,
          <<<<".", "c", "h", "m">>, <<"c", "h", "e", "m", "i", "c", "a", "l", "/", "x", "-", "c", "h", "e", "m", "d", "r", "a", "w">>>>,
          <<<<".", "i", "m", "s">>, <<"a", "p", "p", "l", "i", "c", "a", "t", "i", "o", "n", "/", "v", "n", "d", ".", "m", "s", "-", "i", "m", "s">>>>,
          <<<<".", "l", "r", "m">>, <<"a", "p", "p", "l", "i", "c", "a", "t", "i", "o", "n", "/", "v", "n", "d", ".", "m", "s", "-", "l", "r", "m">>>>,
          <<<<".", "t", "h", "m", "x">>, <<"a", "p", "p", "l", "i", "c", "a", "t", "i", "o", "n", "/", "v", "n", "d", ".", "m", "s", "-", "o", "f", "f", "i", "c", "e", "t", "h", "e", "m", "e">>>>,
          <<<<".", "c", "a", "t">>, <<"a", "p", "p", "l", "i", "c", "a", "t", "i", "o", "n", "/", "v", "n", "d", ".", "m", "s", "-", "p", "k", "i", ".", "s", "e", "c", "c", "a", "t">>>>,
          <<<<".", "p", "p", "a", "m">>, <<"a", "p", "p", "l", "i", "c", "a", "t", "i", "o", "n", "/", "v", "n", "d", ".", "m", "s", "-", "p", "o", "w", "e", "r", "p", "o", "i", "n", "t", ".", "a", "d", "d", "i", "n", ".", "m", "a", "c", "r", "o", "E", "n", "a", "b", "l", "e", "d", ".", "1", "2">>>>,
          <<<<".", "p", "p", "t", "m">>, <<"a", "p", "p", "l", "i", "c", "a", "t", "i", "o", "n", "/", "v", "n", "d", ".", "m", "s", "-", "p", "o", "w", "e", "r", "p", "o", "i", "n", "t", ".", "p", "r", "e", "s", "e", "n", "t", "a", "t", "i", "o", "n", ".", "m", "a", "c", "r", "o", "E", "n", "a", "b", "l", "e", "d", ".", "1", "2">>>>,
          <<<<".", "s", "l", "d", "m">>, <<"a", "p", "p", "l", "i", "c", "a", "t", "i", "o", "n", "/", "v", "n", "d", ".", "m", "s", "-", "p", "o", "w", "e", "r", "p", "o", "i", "n", "t", ".", "s", "l", "i", "d", "e", ".", "m", "a", "c", "r", "o", "E", "n", "a", "b", "l", "e", "d", ".", "1", "2">>>>,
          <<<<".", "p", "p", "s", "m">>, <<"a", "p", "p", "l", "i", "c", "a", "t", "i", "o", "n", "/", "v", "n", "d", ".", "m", "s", "-", "p", "o", "w", "e", "r", "p", "o", "i", "n", "t", ".", "s", "l", "i", "d", "e", "s", "h", "o", "w", ".", "m", "a", "c", "r", "o", "E", "n", "a", "b", "l", "e", "d", ".", "1", "2">>>>,
          <<<<".", "p", "o", "t", "m">>, <<"a", "p", "p", "l", "i", "c", "a", "t", "i", "o", "n", "/", "v", "n", "d", ".", "m", "s", "-", "p", "o", "w", "e", "r", "p", "o", "i", "n", "t", ".", "t", "e", "m", "p", "l", "a", "t", "e", ".", "m", "a", "c", "r", "o", "E", "n", "a", "b", "l", "e", "d", ".", "1", "2">>>>,
          <<<<".", "m", "p", "p">>, <<"a", "p", "p", "l", "i", "c", "a", "t", "i", "o", "n", "/", "v", "n", "d", ".", "m", "s", "-", "p", "r", "o", "j", "e", "c", "t">>>>,
          <<<<".", "m", "p", "t">>, <<"a", "p", "p", "l", "i", "c", "a", "t", "i", "o", "n", "/", "v", "n", "d", ".", "m", "s", "-", "p", "r", "o", "j", "e", "c", "t">>>>,
          <<<<".", "t", "n", "e", "f">>, <<"a", "p", "p", "l", "i", "c", "a", "t", "i", "o", "n", "/", "v", "n", "d", ".", "m", "s", "-", "t", "n", "e", "f">>>>,
          <<<<".", "t", "n", "f">>, <<"a", "p", "p", "l", "i", "c", "a", "t", "i", "o", "n", "/", "v", "n", "d", ".", "m", "s", "-", "t", "n", "e", "f">>>>,
          <<<<".", "d", "o", "c", "m">>, <<"a", "p", "p", "l", "i", "c", "a", "t", "i", "o", "n", "/", "v", "n", "d", ".", "m", "s", "-", "w", "o", "r", "d", ".", "d", "o", "c", "u", "m", "e", "n", "t", ".", "m", "a", "c", "r", "o", "E", "n", "a", "b", "l", "e", "d", ".", "1", "2">>>>,
          <<<<".", "d", "o", "t", "m">>, <<"a", "p", "p", "l", "i", "c", "a", "t", "i", "o", "n", "/", "v", "n", "d", ".", "m", "s", "-", "w", "o", "r", "d", ".", "t", "e", "m", "p", "l", "a", "t", "e", ".", "m", "a", "c", "r", "o", "E", "n", "a", "b", "l", "e", "d", ".", "1", "2">>>>,
          <<<<".", "w", "c", "m">>, <<"a", "p", "p", "l", "i", "c", "a", "t", "i", "o", "n", "/", "v", "n", "d", ".", "m", "s", "-", "w", "o", "r", "k", "s">>>>,
          <<<<".", "w", "d", "b">>, <<"a", "p", "p", "l", "i", "c", "a", "t", "i", "o", "n", "/", "v", "n", "d", ".", "m", "s", "-", "w", "o", "r", "k", "s">>>>,
          <<<<".", "w", "k", "s">>, <<"a", "p", "p", "l", "i", "c", "a", "t", "i", "o", "n", "/", "v", "n", "d", ".", "m", "s", "-", "w", "o", "r", "k", "s">>>>,
          <<<<".", "w", "p", "s">>, <<"a", "p", "p", "l", "i", "c", "a", "t", "i", "o", "n", "/", "v", "n", "d", ".", "m", "s", "-", "w", "o", "r", "k", "s">>>>,
          <<<<".", "w", "p", "l">>, <<"a", "p", "p", "l", "i", "c", "a", "t", "i", "o", "n", "/", "v", "n", "d", ".", "m", "s", "-", "w", "p", "l">>>>,
          <<<<".", "x", "p", "s">>, <<"a", "p", "p", "l", "i", "c", "a", "t", "i", "o", "n", "/", "v", "n", "d", ".", "m", "s", "-", "x", "p", "s", "d", "o", "c", "u", "m", "e", "n", "t">>>>,
          <<<<".", "m", "s", "a">>, <<"a", "p", "p", "l", "i", "c", "a", "t", "i", "o", "n", "/", "v", "n", "d", ".", "m", "s", "a", "-", "d", "i", "s", "k", "-", "i", "m", "a", "g", "e">>>>,
          <<<<".", "m", "s", "e", "q">>, <<"a", "p", "p", "l", "i", "c", "a", "t", "i", "o", "n", "/", "v", "n", "d", ".", "m", "s", "e", "q">>>>,
          <<<<".", "c", "r", "t", "r">>, <<"a", "p", "p", "l", "i", "c", "a", "t", "i", "o", "n", "/", "v", "n", "d", ".", "m", "u", "l", "t", "i", "a", "d", ".", "c", "r", "e", "a", "t", "o", "r">>>>,
          <<<<".", "c", "i", "f">>, <<"c", "h", "e", "m", "i", "c", "a", "l", "/", "x", "-", "c", "i", "f">>>>,
          <<<<".", "m", "u", "s">>, <<"a", "p", "p", "l", "i", "c", "a", "t", "i", "o", "n", "/", "v", "n", "d", ".", "m", "u", "s", "i", "c", "i", "a", "n">>>>,
          <<<<".", "m", "s", "t", "y">>, <<"a", "p", "p", "l", "i", "c", "a", "t", "i", "o", "n", "/", "v", "n", "d", ".", "m", "u", "v", "e", "e", ".", "s", "t", "y", "l", "e">>>>,
          <<<<".", "t", "a", "g", "l", "e", "t">>, <<"a", "p", "p", "l", "i", "c", "a", "t", "i", "o", "n", "/", "v", "n", "d", ".", "m", "y", "n", "f", "c">>>>,
          <<<<".", "n", "e", "b", "u", "l">>, <<"a", "p", "p", "l", "i", "c", "a", "t", "i", "o", "n", "/", "v", "n", "d", ".", "n", "e", "b", "u", "m", "i", "n", "d", ".", "l", "i", "n", "e">>>>,
          <<<<".", "l", "i", "n", "e">>, <<"a", "p", "p", "l", "i", "c", "a", "t", "i", "o", "n", "/", "v", "n", "d", ".", "n", "e", "b", "u", "m", "i", "n", "d", ".", "l", "i", "n", "e">>>>,
          <<<<".", "e", "n", "t", "i", "t", "y">>, <<"a", "p", "p", "l", "i", "c", "a", "t", "i", "o", "n", "/", "v", "n", "d", ".", "n", "e", "r", "v", "a", "n", "a">>>>,
          <<<<".", "r", "e", "q", "u", "e", "s", "t">>, <<"a", "p", "p", "l", "i", "c", "a", "t", "i", "o", "n", "/", "v", "n", "d", ".", "n", "e", "r", "v", "a", "n", "a">>>>,
          <<<<".", "b", "k", "m">>, <<"a", "p", "p", "l", "i", "c", "a", "t", "i", "o", "n", "/", "v", "n", "d", ".", "n", "e", "r", "v", "a", "n", "a">>>>,
          <<<<".", "k", "c", "m">>, <<"a", "p", "p", "l", "i", "c", "a", "t", "i", "o", "n", "/", "v", "n", "d", ".", "n", "e", "r", "v", "a", "n", "a">>>>,
          <<<<".", "n", "l", "u">>, <<"a", "p", "p", "l", "i", "c", "a", "t", "i", "o", "n", "/", "v", "n", "d", ".", "n", "e", "u", "r", "o", "l", "a", "n", "g", "u", "a", "g", "e", ".", "n", "l", "u">>>>,
          <<<<".", "n", "i", "m", "n">>, <<"a", "p", "p", "l", "i", "c", "a", "t", "i", "o", "n", "/", "v", "n", "d", ".", "n", "i", "m", "n">>>>,
          <<<<".", "n", "d", "s">>, <<"a", "p", "p", "l", "i", "c", "a", "t", "i", "o", "n", "/", "v", "n", "d", ".", "n", "i", "n", "t", "e", "n", "d", "o", ".", "n", "i", "t", "r", "o", ".", "r", "o", "m">>>>,
          <<<<".", "s", "f", "c">>, <<"a", "p", "p", "l", "i", "c", "a", "t", "i", "o", "n", "/", "v", "n", "d", ".", "n", "i", "n", "t", "e", "n", "d", "o", ".", "s", "n", "e", "s", ".", "r", "o", "m">>>>,
          <<<<".", "s", "m", "c">>, <<"a", "p", "p", "l", "i", "c", "a", "t", "i", "o", "n", "/", "v", "n", "d", ".", "n", "i", "n", "t", "e", "n", "d", "o", ".", "s", "n", "e", "s", ".", "r", "o", "m">>>>,
          <<<<".", "n", "i", "t", "f">>, <<"a", "p", "p", "l", "i", "c", "a", "t", "i", "o", "n", "/", "v", "n", "d", ".", "n", "i", "t", "f">>>>,
          <<<<".", "n", "n", "d">>, <<"a", "p", "p", "l", "i", "c", "a", "t", "i", "o", "n", "/", "v", "n", "d", ".", "n", "o", "b", "l", "e", "n", "e", "t", "-", "d", "i", "r", "e", "c", "t", "o", "r", "y">>>>,
          <<<<".", "n", "n", "s">>, <<"a", "p", "p", "l", "i", "c", "a", "t", "i", "o", "n", "/", "v", "n", "d", ".", "n", "o", "b", "l", "e", "n", "e", "t", "-", "s", "e", "a", "l", "e", "r">>>>,
          <<<<".", "n", "n", "w">>, <<"a", "p", "p", "l", "i", "c", "a", "t", "i", "o", "n", "/", "v", "n", "d", ".", "n", "o", "b", "l", "e", "n", "e", "t", "-", "w", "e", "b">>>>,
          <<<<".", "n", "g", "d", "a", "t">>, <<"a", "p", "p", "l", "i", "c", "a", "t", "i", "o", "n", "/", "v", "n", "d", ".", "n", "o", "k", "i", "a", ".", "n", "-", "g", "a", "g", "e", ".", "d", "a", "t", "a">>>>,
          <<<<".", "r", "p", "s", "t">>, <<"a", "p", "p", "l", "i", "c", "a", "t", "i", "o", "n", "/", "v", "n", "d", ".", "n", "o", "k", "i", "a", ".", "r", "a", "d", "i", "o", "-", "p", "r", "e", "s", "e", "t">>>>,
          <<<<".", "r", "p", "s", "s">>, <<"a", "p", "p", "l", "i", "c", "a", "t", "i", "o", "n", "/", "v", "n", "d", ".", "n", "o", "k", "i", "a", ".", "r", "a", "d", "i", "o", "-", "p", "r", "e", "s", "e", "t", "s">>>>,
          <<<<".", "e", "d", "m">>, <<"a", "p", "p", "l", "i", "c", "a", "t", "i", "o", "n", "/", "v", "n", "d", ".", "n", "o", "v", "a", "d", "i", "g", "m", ".", "E", "D", "M">>>>,
          <<<<".", "e", "d", "x">>, <<"a", "p", "p", "l", "i", "c", "a", "t", "i", "o", "n", "/", "v", "n", "d", ".", "n", "o", "v", "a", "d", "i", "g", "m", ".", "E", "D", "X">>>>,
          <<<<".", "e", "x", "t">>, <<"a", "p", "p", "l", "i", "c", "a", "t", "i", "o", "n", "/", "v", "n", "d", ".", "n", "o", "v", "a", "d", "i", "g", "m", ".", "E", "X", "T">>>>,
          <<<<".", "o", "d", "b">>, <<"a", "p", "p", "l", "i", "c", "a", "t", "i", "o", "n", "/", "v", "n", "d", ".", "o", "a", "s", "i", "s", ".", "o", "p", "e", "n", "d", "o", "c", "u", "m", "e", "n", "t", ".", "b", "a", "s", "e">>>>,
          <<<<".", "o", "d", "c">>, <<"a", "p", "p", "l", "i", "c", "a", "t", "i", "o", "n", "/", "v", "n", "d", ".", "o", "a", "s", "i", "s", ".", "o", "p", "e", "n", "d", "o", "c", "u", "m", "e", "n", "t", ".", "c", "h", "a", "r", "t">>>>,
          <<<<".", "o", "t", "c">>, <<"a", "p", "p", "l", "i", "c", "a", "t", "i", "o", "n", "/", "v", "n", "d", ".", "o", "a", "s", "i", "s", ".", "o", "p", "e", "n", "d", "o", "c", "u", "m", "e", "n", "t", ".", "c", "h", "a", "r", "t", "-", "t", "e", "m", "p", "l", "a", "t", "e">>>>,
          <<<<".", "o", "d", "f">>, <<"a", "p", "p", "l", "i", "c", "a", "t", "i", "o", "n", "/", "v", "n", "d", ".", "o", "a", "s", "i", "s", ".", "o", "p", "e", "n", "d", "o", "c", "u", "m", "e", "n", "t", ".", "f", "o", "r", "m", "u", "l", "a">>>>,
          <<<<".", "o", "d", "g">>, <<"a", "p", "p", "l", "i", "c", "a", "t", "i", "o", "n", "/", "v", "n", "d", ".", "o", "a", "s", "i", "s", ".", "o", "p", "e", "n", "d", "o", "c", "u", "m", "e", "n", "t", ".", "g", "r", "a", "p", "h", "i", "c", "s">>>>,
          <<<<".", "o", "t", "g">>, <<"a", "p", "p", "l", "i", "c", "a", "t", "i", "o", "n", "/", "v", "n", "d", ".", "o", "a", "s", "i", "s", ".", "o", "p", "e", "n", "d", "o", "c", "u", "m", "e", "n", "t", ".", "g", "r", "a", "p", "h", "i", "c", "s", "-", "t", "e", "m", "p", "l", "a", "t", "e">>>>,
          <<<<".", "o", "d", "i">>, <<"a", "p", "p", "l", "i", "c", "a", "t", "i", "o", "n", "/", "v", "n", "d", ".", "o", "a", "s", "i", "s", ".", "o", "p", "e", "n", "d", "o", "c", "u", "m", "e", "n", "t", ".", "i", "m", "a", "g", "e">>>>,
          <<<<".", "o", "t", "i">>, <<"a", "p", "p", "l", "i", "c", "a", "t", "i", "o", "n", "/", "v", "n", "d", ".", "o", "a", "s", "i", "s", ".", "o", "p", "e", "n", "d", "o", "c", "u", "m", "e", "n", "t", ".", "i", "m", "a", "g", "e", "-", "t", "e", "m", "p", "l", "a", "t", "e">>>>,
          <<<<".", "o", "d", "p">>, <<"a", "p", "p", "l", "i", "c", "a", "t", "i", "o", "n", "/", "v", "n", "d", ".", "o", "a", "s", "i", "s", ".", "o", "p", "e", "n", "d", "o", "c", "u", "m", "e", "n", "t", ".", "p", "r", "e", "s", "e", "n", "t", "a", "t", "i", "o", "n">>>>,
          <<<<".", "o", "t", "p">>, <<"a", "p", "p", "l", "i", "c", "a", "t", "i", "o", "n", "/", "v", "n", "d", ".", "o", "a", "s", "i", "s", ".", "o", "p", "e", "n", "d", "o", "c", "u", "m", "e", "n", "t", ".", "p", "r", "e", "s", "e", "n", "t", "a", "t", "i", "o", "n", "-", "t", "e", "m", "p", "l", "a", "t", "e">>>>,
          <<<<".", "o", "d", "s">>, <<"a", "p", "p", "l", "i", "c", "a", "t", "i", "o", "n", "/", "v", "n", "d", ".", "o", "a", "s", "i", "s", ".", "o", "p", "e", "n", "d", "o", "c", "u", "m", "e", "n", "t", ".", "s", "p", "r", "e", "a", "d", "s", "h", "e", "e", "t">>>>,
          <<<<".", "o", "t", "s">>, <<"a", "p", "p", "l", "i", "c", "a", "t", "i", "o", "n", "/", "v", "n", "d", ".", "o", "a", "s", "i", "s", ".", "o", "p", "e", "n", "d", "o", "c", "u", "m", "e", "n", "t", ".", "s", "p", "r", "e", "a", "d", "s", "h", "e", "e", "t", "-", "t", "e", "m", "p", "l", "a", "t", "e">>>>,
          <<<<".", "o", "d", "t">>, <<"a", "p", "p", "l", "i", "c", "a", "t", "i", "o", "n", "/", "v", "n", "d", ".", "o", "a", "s", "i", "s", ".", "o", "p", "e", "n", "d", "o", "c", "u", "m", "e", "n", "t", ".", "t", "e", "x", "t">>>>,
          <<<<".", "o", "d", "m">>, <<"a", "p", "p", "l", "i", "c", "a", "t", "i", "o", "n", "/", "v", "n", "d", ".", "o", "a", "s", "i", "s", ".", "o", "p", "e", "n", "d", "o", "c", "u", "m", "e", "n", "t", ".", "t", "e", "x", "t", "-", "m", "a", "s", "t", "e", "r">>>>,
          <<<<".", "o", "t", "t">>, <<"a", "p", "p", "l", "i", "c", "a", "t", "i", "o", "n", "/", "v", "n", "d", ".", "o", "a", "s", "i", "s", ".", "o", "p", "e", "n", "d", "o", "c", "u", "m", "e", "n", "t", ".", "t", "e", "x", "t", "-", "t", "e", "m", "p", "l", "a", "t", "e">>>>,
          <<<<".", "o", "t", "h">>, <<"a", "p", "p", "l", "i", "c", "a", "t", "i", "o", "n", "/", "v", "n", "d", ".", "o", "a", "s", "i", "s", ".", "o", "p", "e", "n", "d", "o", "c", "u", "m", "e", "n", "t", ".", "t", "e", "x", "t", "-", "w", "e", "b">>>>,
          <<<<".", "x", "o">>, <<"a", "p", "p", "l", "i", "c", "a", "t", "i", "o", "n", "/", "v", "n", "d", ".", "o", "l", "p", "c", "-", "s", "u", "g", "a", "r">>>>,
          <<<<".", "d", "d", "2">>, <<"a", "p", "p", "l", "i", "c", "a", "t", "i", "o", "n", "/", "v", "n", "d", ".", "o", "m", "a", ".", "d", "d", "2", "+", "x", "m", "l">>>>,
          <<<<".", "t", "a", "m">>, <<"a", "p", "p", "l", "i", "c", "a", "t", "i", "o", "n", "/", "v", "n", "d", ".", "o", "n", "e", "p", "a", "g", "e", "r">>>>,
          <<<<".", "t", "a", "m", "p">>, <<"a", "p", "p", "l", "i", "c", "a", "t", "i", "o", "n", "/", "v", "n", "d", ".", "o", "n", "e", "p", "a", "g", "e", "r", "t", "a", "m", "p">>>>,
          <<<<".", "t", "a", "m", "x">>, <<"a", "p", "p", "l", "i", "c", "a", "t", "i", "o", "n", "/", "v", "n", "d", ".", "o", "n", "e", "p", "a", "g", "e", "r", "t", "a", "m", "x">>>>,
          <<<<".", "t", "a", "t">>, <<"a", "p", "p", "l", "i", "c", "a", "t", "i", "o", "n", "/", "v", "n", "d", ".", "o", "n", "e", "p", "a", "g", "e", "r", "t", "a", "t">>>>,
          <<<<".", "t", "a", "t", "p">>, <<"a", "p", "p", "l", "i", "c", "a", "t", "i", "o", "n", "/", "v", "n", "d", ".", "o", "n", "e", "p", "a", "g", "e", "r", "t", "a", "t", "p">>>>,
          <<<<".", "t", "a", "t", "x">>, <<"a", "p", "p", "l", "i", "c", "a", "t", "i", "o", "n", "/", "v", "n", "d", ".", "o", "n", "e", "p", "a", "g", "e", "r", "t", "a", "t", "x">>>>,
          <<<<".", "o", "b", "g", "x">>, <<"a", "p", "p", "l", "i", "c", "a", "t", "i", "o", "n", "/", "v", "n", "d", ".", "o", "p", "e", "n", "b", "l", "o", "x", ".", "g", "a", "m", "e", "+", "x", "m", "l">>>>,
          <<<<".", "o", "b", "g">>, <<"a", "p", "p", "l", "i", "c", "a", "t", "i", "o", "n", "/", "v", "n", "d", ".", "o", "p", "e", "n", "b", "l", "o", "x", ".", "g", "a", "m", "e", "-", "b", "i", "n", "a", "r", "y">>>>,
          <<<<".", "o", "e", "b">>, <<"a", "p", "p", "l", "i", "c", "a", "t", "i", "o", "n", "/", "v", "n", "d", ".", "o", "p", "e", "n", "e", "y", "e", ".", "o", "e", "b">>>>,
          <<<<".", "o", "x", "t">>, <<"a", "p", "p", "l", "i", "c", "a", "t", "i", "o", "n", "/", "v", "n", "d", ".", "o", "p", "e", "n", "o", "f", "f", "i", "c", "e", "o", "r", "g", ".", "e", "x", "t", "e", "n", "s", "i", "o", "n">>>>,
          <<<<".", "o", "s", "m">>, <<"a", "p", "p", "l", "i", "c", "a", "t", "i", "o", "n", "/", "v", "n", "d", ".", "o", "p", "e", "n", "s", "t", "r", "e", "e", "t", "m", "a", "p", ".", "d", "a", "t", "a", "+", "x", "m", "l">>>>,
          <<<<".", "p", "p", "t", "x">>, <<"a", "p", "p", "l", "i", "c", "a", "t", "i", "o", "n", "/", "v", "n", "d", ".", "o", "p", "e", "n", "x", "m", "l", "f", "o", "r", "m", "a", "t", "s", "-", "o", "f", "f", "i", "c", "e", "d", "o", "c", "u", "m", "e", "n", "t", ".", "p", "r", "e", "s", "e", "n", "t", "a", "t", "i", "o", "n", "m", "l", ".", "p", "r", "e", "s", "e", "n", "t", "a", "t", "i", "o", "n">>>>,
          <<<<".", "s", "l", "d", "x">>, <<"a", "p", "p", "l", "i", "c", "a", "t", "i", "o", "n", "/", "v", "n", "d", ".", "o", "p", "e", "n", "x", "m", "l", "f", "o", "r", "m", "a", "t", "s", "-", "o", "f", "f", "i", "c", "e", "d", "o", "c", "u", "m", "e", "n", "t", ".", "p", "r", "e", "s", "e", "n", "t", "a", "t", "i", "o", "n", "m", "l", ".", "s", "l", "i", "d", "e">>>>,
          <<<<".", "p", "p", "s", "x">>, <<"a", "p", "p", "l", "i", "c", "a", "t", "i", "o", "n", "/", "v", "n", "d", ".", "o", "p", "e", "n", "x", "m", "l", "f", "o", "r", "m", "a", "t", "s", "-", "o", "f", "f", "i", "c", "e", "d", "o", "c", "u", "m", "e", "n", "t", ".", "p", "r", "e", "s", "e", "n", "t", "a", "t", "i", "o", "n", "m", "l", ".", "s", "l", "i", "d", "e", "s", "h", "o", "w">>>>,
          <<<<".", "p", "o", "t", "x">>, <<"a", "p", "p", "l", "i", "c", "a", "t", "i", "o", "n", "/", "v", "n", "d", ".", "o", "p", "e", "n", "x", "m", "l", "f", "o", "r", "m", "a", "t", "s", "-", "o", "f", "f", "i", "c", "e", "d", "o", "c", "u", "m", "e", "n", "t", ".", "p", "r", "e", "s", "e", "n", "t", "a", "t", "i", "o", "n", "m", "l", ".", "t", "e", "m", "p", "l", "a", "t", "e">>>>,
          <<<<".", "x", "l", "s", "x">>, <<"a", "p", "p", "l", "i", "c", "a", "t", "i", "o", "n", "/", "v", "n", "d", ".", "o", "p", "e", "n", "x", "m", "l", "f", "o", "r", "m", "a", "t", "s", "-", "o", "f", "f", "i", "c", "e", "d", "o", "c", "u", "m", "e", "n", "t", ".", "s", "p", "r", "e", "a", "d", "s", "h", "e", "e", "t", "m", "l", ".", "s", "h", "e", "e", "t">>>>,
          <<<<".", "x", "l", "t", "x">>, <<"a", "p", "p", "l", "i", "c", "a", "t", "i", "o", "n", "/", "v", "n", "d", ".", "o", "p", "e", "n", "x", "m", "l", "f", "o", "r", "m", "a", "t", "s", "-", "o", "f", "f", "i", "c", "e", "d", "o", "c", "u", "m", "e", "n", "t", ".", "s", "p", "r", "e", "a", "d", "s", "h", "e", "e", "t", "m", "l", ".", "t", "e", "m", "p", "l", "a", "t", "e">>>>,
          <<<<".", "d", "o", "c", "x">>, <<"a", "p", "p", "l", "i", "c", "a", "t", "i", "o", "n", "/", "v", "n", "d", ".", "o", "p", "e", "n", "x", "m", "l", "f", "o", "r", "m", "a", "t", "s", "-", "o", "f", "f", "i", "c", "e", "d", "o", "c", "u", "m", "e", "n", "t", ".", "w", "o", "r", "d", "p", "r", "o", "c", "e", "s", "s", "i", "n", "g", "m", "l", ".", "d", "o", "c", "u", "m", "e", "n", "t">>>>,
          <<<<".", "d", "o", "t", "x">>, <<"a", "p", "p", "l", "i", "c", "a", "t", "i", "o", "n", "/", "v", "n", "d", ".", "o", "p", "e", "n", "x", "m", "l", "f", "o", "r", "m", "a", "t", "s", "-", "o", "f", "f", "i", "c", "e", "d", "o", "c", "u", "m", "e", "n", "t", ".", "w", "o", "r", "d", "p", "r", "o", "c", "e", "s", "s", "i", "n", "g", "m", "l", ".", "t", "e", "m", "p", "l", "a", "t", "e">>>>,
          <<<<".", "n", "d", "c">>, <<"a", "p", "p", "l", "i", "c", "a", "t", "i", "o", "n", "/", "v", "n", "d", ".", "o", "s", "a", ".", "n", "e", "t", "d", "e", "p", "l", "o", "y">>>>,
          <<<<".", "m", "g", "p">>, <<"a", "p", "p", "l", "i", "c", "a", "t", "i", "o", "n", "/", "v", "n", "d", ".", "o", "s", "g", "e", "o", ".", "m", "a", "p", "g", "u", "i", "d", "e", ".", "p", "a", "c", "k", "a", "g", "e">>>>,
          <<<<".", "d", "p">>, <<"a", "p", "p", "l", "i", "c", "a", "t", "i", "o", "n", "/", "v", "n", "d", ".", "o", "s", "g", "i", ".", "d", "p">>>>,
          <<<<".", "e", "s", "a">>, <<"a", "p", "p", "l", "i", "c", "a", "t", "i", "o", "n", "/", "v", "n", "d", ".", "o", "s", "g", "i", ".", "s", "u", "b", "s", "y", "s", "t", "e", "m">>>>,
          <<<<".", "o", "x", "l", "i", "c", "g">>, <<"a", "p", "p", "l", "i", "c", "a", "t", "i", "o", "n", "/", "v", "n", "d", ".", "o", "x", "l", "i", ".", "c", "o", "u", "n", "t", "g", "r", "a", "p", "h">>>>,
          <<<<".", "p", "d", "b">>, <<"c", "h", "e", "m", "i", "c", "a", "l", "/", "x", "-", "p", "d", "b">>>>,
          <<<<".", "p", "q", "a">>, <<"a", "p", "p", "l", "i", "c", "a", "t", "i", "o", "n", "/", "v", "n", "d", ".", "p", "a", "l", "m">>>>,
          <<<<".", "o", "p", "r", "c">>, <<"a", "p", "p", "l", "i", "c", "a", "t", "i", "o", "n", "/", "v", "n", "d", ".", "p", "a", "l", "m">>>>,
          <<<<".", "p", "l", "p">>, <<"a", "p", "p", "l", "i", "c", "a", "t", "i", "o", "n", "/", "v", "n", "d", ".", "p", "a", "n", "o", "p", "l", "y">>>>,
          <<<<".", "d", "i", "v", "e">>, <<"a", "p", "p", "l", "i", "c", "a", "t", "i", "o", "n", "/", "v", "n", "d", ".", "p", "a", "t", "e", "n", "t", "d", "i", "v", "e">>>>,
          <<<<".", "p", "a", "w">>, <<"a", "p", "p", "l", "i", "c", "a", "t", "i", "o", "n", "/", "v", "n", "d", ".", "p", "a", "w", "a", "a", "f", "i", "l", "e">>>>,
          <<<<".", "s", "t", "r">>, <<"a", "p", "p", "l", "i", "c", "a", "t", "i", "o", "n", "/", "v", "n", "d", ".", "p", "g", ".", "f", "o", "r", "m", "a", "t">>>>,
          <<<<".", "e", "i", "6">>, <<"a", "p", "p", "l", "i", "c", "a", "t", "i", "o", "n", "/", "v", "n", "d", ".", "p", "g", ".", "o", "s", "a", "s", "l", "i">>>>,
          <<<<".", "p", "i", "l">>, <<"a", "p", "p", "l", "i", "c", "a", "t", "i", "o", "n", "/", "v", "n", "d", ".", "p", "i", "a", "c", "c", "e", "s", "s", ".", "a", "p", "p", "l", "i", "c", "a", "t", "i", "o", "n", "-", "l", "i", "c", "e", "n", "c", "e">>>>,
          <<<<".", "e", "f", "i", "f">>, <<"a", "p", "p", "l", "i", "c", "a", "t", "i", "o", "n", "/", "v", "n", "d", ".", "p", "i", "c", "s", "e", "l">>>>,
          <<<<".", "w", "g">>, <<"a", "p", "p", "l", "i", "c", "a", "t", "i", "o", "n", "/", "v", "n", "d", ".", "p", "m", "i", ".", "w", "i", "d", "g", "e", "t">>>>,
          <<<<".", "p", "l", "f">>, <<"a", "p", "p", "l", "i", "c", "a", "t", "i", "o", "n", "/", "v", "n", "d", ".", "p", "o", "c", "k", "e", "t", "l", "e", "a", "r", "n">>>>,
          <<<<".", "p", "b", "d">>, <<"a", "p", "p", "l", "i", "c", "a", "t", "i", "o", "n", "/", "v", "n", "d", ".", "p", "o", "w", "e", "r", "b", "u", "i", "l", "d", "e", "r", "6">>>>,
          <<<<".", "p", "r", "e", "m", "i", "n", "e", "t">>, <<"a", "p", "p", "l", "i", "c", "a", "t", "i", "o", "n", "/", "v", "n", "d", ".", "p", "r", "e", "m", "i", "n", "e", "t">>>>,
          <<<<".", "b", "o", "x">>, <<"a", "p", "p", "l", "i", "c", "a", "t", "i", "o", "n", "/", "v", "n", "d", ".", "p", "r", "e", "v", "i", "e", "w", "s", "y", "s", "t", "e", "m", "s", ".", "b", "o", "x">>>>,
          <<<<".", "v", "b", "o", "x">>, <<"a", "p", "p", "l", "i", "c", "a", "t", "i", "o", "n", "/", "v", "n", "d", ".", "p", "r", "e", "v", "i", "e", "w", "s", "y", "s", "t", "e", "m", "s", ".", "b", "o", "x">>>>,
          <<<<".", "m", "g", "z">>, <<"a", "p", "p", "l", "i", "c", "a", "t", "i", "o", "n", "/", "v", "n", "d", ".", "p", "r", "o", "t", "e", "u", "s", ".", "m", "a", "g", "a", "z", "i", "n", "e">>>>,
          <<<<".", "p", "s", "f", "s">>, <<"a", "p", "p", "l", "i", "c", "a", "t", "i", "o", "n", "/", "v", "n", "d", ".", "p", "s", "f", "s">>>>,
          <<<<".", "q", "p", "s">>, <<"a", "p", "p", "l", "i", "c", "a", "t", "i", "o", "n", "/", "v", "n", "d", ".", "p", "u", "b", "l", "i", "s", "h", "a", "r", "e", "-", "d", "e", "l", "t", "a", "-", "t", "r", "e", "e">>>>,
          <<<<".", "p", "t", "i", "d">>, <<"a", "p", "p", "l", "i", "c", "a", "t", "i", "o", "n", "/", "v", "n", "d", ".", "p", "v", "i", ".", "p", "t", "i", "d", "1">>>>,
          <<<<".", "b", "a", "r">>, <<"a", "p", "p", "l", "i", "c", "a", "t", "i", "o", "n", "/", "v", "n", "d", ".", "q", "u", "a", "l", "c", "o", "m", "m", ".", "b", "r", "e", "w", "-", "a", "p", "p", "-", "r", "e", "s">>>>,
          <<<<".", "q", "x", "d">>, <<"a", "p", "p", "l", "i", "c", "a", "t", "i", "o", "n", "/", "v", "n", "d", ".", "Q", "u", "a", "r", "k", ".", "Q", "u", "a", "r", "k", "X", "P", "r", "e", "s", "s">>>>,
          <<<<".", "q", "x", "t">>, <<"a", "p", "p", "l", "i", "c", "a", "t", "i", "o", "n", "/", "v", "n", "d", ".", "Q", "u", "a", "r", "k", ".", "Q", "u", "a", "r", "k", "X", "P", "r", "e", "s", "s">>>>,
          <<<<".", "q", "w", "d">>, <<"a", "p", "p", "l", "i", "c", "a", "t", "i", "o", "n", "/", "v", "n", "d", ".", "Q", "u", "a", "r", "k", ".", "Q", "u", "a", "r", "k", "X", "P", "r", "e", "s", "s">>>>,
          <<<<".", "q", "w", "t">>, <<"a", "p", "p", "l", "i", "c", "a", "t", "i", "o", "n", "/", "v", "n", "d", ".", "Q", "u", "a", "r", "k", ".", "Q", "u", "a", "r", "k", "X", "P", "r", "e", "s", "s">>>>,
          <<<<".", "q", "x", "l">>, <<"a", "p", "p", "l", "i", "c", "a", "t", "i", "o", "n", "/", "v", "n", "d", ".", "Q", "u", "a", "r", "k", ".", "Q", "u", "a", "r", "k", "X", "P", "r", "e", "s", "s">>>>,
          <<<<".", "q", "x", "b">>, <<"a", "p", "p", "l", "i", "c", "a", "t", "i", "o", "n", "/", "v", "n", "d", ".", "Q", "u", "a", "r", "k", ".", "Q", "u", "a", "r", "k", "X", "P", "r", "e", "s", "s">>>>,
          <<<<".", "q", "u", "o", "x">>, <<"a", "p", "p", "l", "i", "c", "a", "t", "i", "o", "n", "/", "v", "n", "d", ".", "q", "u", "o", "b", "j", "e", "c", "t", "-", "q", "u", "o", "x", "d", "o", "c", "u", "m", "e", "n", "t">>>>,
          <<<<".", "q", "u", "i", "z">>, <<"a", "p", "p", "l", "i", "c", "a", "t", "i", "o", "n", "/", "v", "n", "d", ".", "q", "u", "o", "b", "j", "e", "c", "t", "-", "q", "u", "o", "x", "d", "o", "c", "u", "m", "e", "n", "t">>>>,
          <<<<".", "t", "r", "e", "e">>, <<"a", "p", "p", "l", "i", "c", "a", "t", "i", "o", "n", "/", "v", "n", "d", ".", "r", "a", "i", "n", "s", "t", "o", "r", ".", "d", "a", "t", "a">>>>,
          <<<<".", "r", "a", "r">>, <<"a", "p", "p", "l", "i", "c", "a", "t", "i", "o", "n", "/", "v", "n", "d", ".", "r", "a", "r">>>>,
          <<<<".", "b", "e", "d">>, <<"a", "p", "p", "l", "i", "c", "a", "t", "i", "o", "n", "/", "v", "n", "d", ".", "r", "e", "a", "l", "v", "n", "c", ".", "b", "e", "d">>>>,
          <<<<".", "m", "x", "l">>, <<"a", "p", "p", "l", "i", "c", "a", "t", "i", "o", "n", "/", "v", "n", "d", ".", "r", "e", "c", "o", "r", "d", "a", "r", "e", ".", "m", "u", "s", "i", "c", "x", "m", "l">>>>,
          <<<<".", "r", "l", "m">>, <<"a", "p", "p", "l", "i", "c", "a", "t", "i", "o", "n", "/", "v", "n", "d", ".", "r", "e", "s", "i", "l", "i", "e", "n", "t", ".", "l", "o", "g", "i", "c">>>>,
          <<<<".", "r", "e", "l", "o", "a", "d">>, <<"a", "p", "p", "l", "i", "c", "a", "t", "i", "o", "n", "/", "v", "n", "d", ".", "r", "e", "s", "i", "l", "i", "e", "n", "t", ".", "l", "o", "g", "i", "c">>>>,
          <<<<".", "c", "r", "y", "p", "t", "o", "n", "o", "t", "e">>, <<"a", "p", "p", "l", "i", "c", "a", "t", "i", "o", "n", "/", "v", "n", "d", ".", "r", "i", "g", ".", "c", "r", "y", "p", "t", "o", "n", "o", "t", "e">>>>,
          <<<<".", "c", "o", "d">>, <<"a", "p", "p", "l", "i", "c", "a", "t", "i", "o", "n", "/", "v", "n", "d", ".", "r", "i", "m", ".", "c", "o", "d">>>>,
          <<<<".", "l", "i", "n", "k", "6", "6">>, <<"a", "p", "p", "l", "i", "c", "a", "t", "i", "o", "n", "/", "v", "n", "d", ".", "r", "o", "u", "t", "e", "6", "6", ".", "l", "i", "n", "k", "6", "6", "+", "x", "m", "l">>>>,
          <<<<".", "s", "t">>, <<"a", "p", "p", "l", "i", "c", "a", "t", "i", "o", "n", "/", "v", "n", "d", ".", "s", "a", "i", "l", "i", "n", "g", "t", "r", "a", "c", "k", "e", "r", ".", "t", "r", "a", "c", "k">>>>,
          <<<<".", "S", "A", "R">>, <<"a", "p", "p", "l", "i", "c", "a", "t", "i", "o", "n", "/", "v", "n", "d", ".", "s", "a", "r">>>>,
          <<<<".", "s", "c", "d">>, <<"a", "p", "p", "l", "i", "c", "a", "t", "i", "o", "n", "/", "v", "n", "d", ".", "s", "c", "r", "i", "b", "u", "s">>>>,
          <<<<".", "s", "l", "a">>, <<"a", "p", "p", "l", "i", "c", "a", "t", "i", "o", "n", "/", "v", "n", "d", ".", "s", "c", "r", "i", "b", "u", "s">>>>,
          <<<<".", "s", "l", "a", "z">>, <<"a", "p", "p", "l", "i", "c", "a", "t", "i", "o", "n", "/", "v", "n", "d", ".", "s", "c", "r", "i", "b", "u", "s">>>>,
          <<<<".", "s", "3", "d", "f">>, <<"a", "p", "p", "l", "i", "c", "a", "t", "i", "o", "n", "/", "v", "n", "d", ".", "s", "e", "a", "l", "e", "d", ".", "3", "d", "f">>>>,
          <<<<".", "s", "c", "s", "f">>, <<"a", "p", "p", "l", "i", "c", "a", "t", "i", "o", "n", "/", "v", "n", "d", ".", "s", "e", "a", "l", "e", "d", ".", "c", "s", "f">>>>,
          <<<<".", "s", "d", "o", "c">>, <<"a", "p", "p", "l", "i", "c", "a", "t", "i", "o", "n", "/", "v", "n", "d", ".", "s", "e", "a", "l", "e", "d", ".", "d", "o", "c">>>>,
          <<<<".", "s", "d", "o">>, <<"a", "p", "p", "l", "i", "c", "a", "t", "i", "o", "n", "/", "v", "n", "d", ".", "s", "e", "a", "l", "e", "d", ".", "d", "o", "c">>>>,
          <<<<".", "s", "1", "w">>, <<"a", "p", "p", "l", "i", "c", "a", "t", "i", "o", "n", "/", "v", "n", "d", ".", "s", "e", "a", "l", "e", "d", ".", "d", "o", "c">>>>,
          <<<<".", "s", "e", "m", "l">>, <<"a", "p", "p", "l", "i", "c", "a", "t", "i", "o", "n", "/", "v", "n", "d", ".", "s", "e", "a", "l", "e", "d", ".", "e", "m", "l">>>>,
          <<<<".", "s", "e", "m">>, <<"a", "p", "p", "l", "i", "c", "a", "t", "i", "o", "n", "/", "v", "n", "d", ".", "s", "e", "a", "l", "e", "d", ".", "e", "m", "l">>>>,
          <<<<".", "s", "m", "h", "t">>, <<"a", "p", "p", "l", "i", "c", "a", "t", "i", "o", "n", "/", "v", "n", "d", ".", "s", "e", "a", "l", "e", "d", ".", "m", "h", "t">>>>,
          <<<<".", "s", "m", "h">>, <<"a", "p", "p", "l", "i", "c", "a", "t", "i", "o", "n", "/", "v", "n", "d", ".", "s", "e", "a", "l", "e", "d", ".", "m", "h", "t">>>>,
          <<<<".", "s", "p", "p", "t">>, <<"a", "p", "p", "l", "i", "c", "a", "t", "i", "o", "n", "/", "v", "n", "d", ".", "s", "e", "a", "l", "e", "d", ".", "p", "p", "t">>>>,
          <<<<".", "s", "1", "p">>, <<"a", "p", "p", "l", "i", "c", "a", "t", "i", "o", "n", "/", "v", "n", "d", ".", "s", "e", "a", "l", "e", "d", ".", "p", "p", "t">>>>,
          <<<<".", "s", "t", "i", "f">>, <<"a", "p", "p", "l", "i", "c", "a", "t", "i", "o", "n", "/", "v", "n", "d", ".", "s", "e", "a", "l", "e", "d", ".", "t", "i", "f", "f">>>>,
          <<<<".", "s", "x", "l", "s">>, <<"a", "p", "p", "l", "i", "c", "a", "t", "i", "o", "n", "/", "v", "n", "d", ".", "s", "e", "a", "l", "e", "d", ".", "x", "l", "s">>>>,
          <<<<".", "s", "x", "l">>, <<"a", "p", "p", "l", "i", "c", "a", "t", "i", "o", "n", "/", "v", "n", "d", ".", "s", "e", "a", "l", "e", "d", ".", "x", "l", "s">>>>,
          <<<<".", "s", "1", "e">>, <<"a", "p", "p", "l", "i", "c", "a", "t", "i", "o", "n", "/", "v", "n", "d", ".", "s", "e", "a", "l", "e", "d", ".", "x", "l", "s">>>>,
          <<<<".", "s", "t", "m", "l">>, <<"a", "p", "p", "l", "i", "c", "a", "t", "i", "o", "n", "/", "v", "n", "d", ".", "s", "e", "a", "l", "e", "d", "m", "e", "d", "i", "a", ".", "s", "o", "f", "t", "s", "e", "a", "l", ".", "h", "t", "m", "l">>>>,
          <<<<".", "s", "1", "h">>, <<"a", "p", "p", "l", "i", "c", "a", "t", "i", "o", "n", "/", "v", "n", "d", ".", "s", "e", "a", "l", "e", "d", "m", "e", "d", "i", "a", ".", "s", "o", "f", "t", "s", "e", "a", "l", ".", "h", "t", "m", "l">>>>,
          <<<<".", "s", "p", "d", "f">>, <<"a", "p", "p", "l", "i", "c", "a", "t", "i", "o", "n", "/", "v", "n", "d", ".", "s", "e", "a", "l", "e", "d", "m", "e", "d", "i", "a", ".", "s", "o", "f", "t", "s", "e", "a", "l", ".", "p", "d", "f">>>>,
          <<<<".", "s", "p", "d">>, <<"a", "p", "p", "l", "i", "c", "a", "t", "i", "o", "n", "/", "v", "n", "d", ".", "s", "e", "a", "l", "e", "d", "m", "e", "d", "i", "a", ".", "s", "o", "f", "t", "s", "e", "a", "l", ".", "p", "d", "f">>>>,
          <<<<".", "s", "1", "a">>, <<"a", "p", "p", "l", "i", "c", "a", "t", "i", "o", "n", "/", "v", "n", "d", ".", "s", "e", "a", "l", "e", "d", "m", "e", "d", "i", "a", ".", "s", "o", "f", "t", "s", "e", "a", "l", ".", "p", "d", "f">>>>,
          <<<<".", "s", "e", "e">>, <<"a", "p", "p", "l", "i", "c", "a", "t", "i", "o", "n", "/", "v", "n", "d", ".", "s", "e", "e", "m", "a", "i", "l">>>>,
          <<<<".", "s", "e", "m", "a">>, <<"a", "p", "p", "l", "i", "c", "a", "t", "i", "o", "n", "/", "v", "n", "d", ".", "s", "e", "m", "a">>>>,
          <<<<".", "s", "e", "m", "d">>, <<"a", "p", "p", "l", "i", "c", "a", "t", "i", "o", "n", "/", "v", "n", "d", ".", "s", "e", "m", "d">>>>,
          <<<<".", "s", "e", "m", "f">>, <<"a", "p", "p", "l", "i", "c", "a", "t", "i", "o", "n", "/", "v", "n", "d", ".", "s", "e", "m", "f">>>>,
          <<<<".", "s", "s", "v">>, <<"a", "p", "p", "l", "i", "c", "a", "t", "i", "o", "n", "/", "v", "n", "d", ".", "s", "h", "a", "d", "e", "-", "s", "a", "v", "e", "-", "f", "i", "l", "e">>>>,
          <<<<".", "i", "f", "m">>, <<"a", "p", "p", "l", "i", "c", "a", "t", "i", "o", "n", "/", "v", "n", "d", ".", "s", "h", "a", "n", "a", ".", "i", "n", "f", "o", "r", "m", "e", "d", ".", "f", "o", "r", "m", "d", "a", "t", "a">>>>,
          <<<<".", "i", "t", "p">>, <<"a", "p", "p", "l", "i", "c", "a", "t", "i", "o", "n", "/", "v", "n", "d", ".", "s", "h", "a", "n", "a", ".", "i", "n", "f", "o", "r", "m", "e", "d", ".", "f", "o", "r", "m", "t", "e", "m", "p", "l", "a", "t", "e">>>>,
          <<<<".", "i", "i", "f">>, <<"a", "p", "p", "l", "i", "c", "a", "t", "i", "o", "n", "/", "v", "n", "d", ".", "s", "h", "a", "n", "a", ".", "i", "n", "f", "o", "r", "m", "e", "d", ".", "i", "n", "t", "e", "r", "c", "h", "a", "n", "g", "e">>>>,
          <<<<".", "i", "p", "k">>, <<"a", "p", "p", "l", "i", "c", "a", "t", "i", "o", "n", "/", "v", "n", "d", ".", "s", "h", "a", "n", "a", ".", "i", "n", "f", "o", "r", "m", "e", "d", ".", "p", "a", "c", "k", "a", "g", "e">>>>,
          <<<<".", "s", "h", "p">>, <<"a", "p", "p", "l", "i", "c", "a", "t", "i", "o", "n", "/", "x", "-", "q", "g", "i", "s">>>>,
          <<<<".", "s", "h", "x">>, <<"a", "p", "p", "l", "i", "c", "a", "t", "i", "o", "n", "/", "x", "-", "q", "g", "i", "s">>>>,
          <<<<".", "s", "r">>, <<"a", "p", "p", "l", "i", "c", "a", "t", "i", "o", "n", "/", "v", "n", "d", ".", "s", "i", "g", "r", "o", "k", ".", "s", "e", "s", "s", "i", "o", "n">>>>,
          <<<<".", "t", "w", "d">>, <<"a", "p", "p", "l", "i", "c", "a", "t", "i", "o", "n", "/", "v", "n", "d", ".", "S", "i", "m", "T", "e", "c", "h", "-", "M", "i", "n", "d", "M", "a", "p", "p", "e", "r">>>>,
          <<<<".", "t", "w", "d", "s">>, <<"a", "p", "p", "l", "i", "c", "a", "t", "i", "o", "n", "/", "v", "n", "d", ".", "S", "i", "m", "T", "e", "c", "h", "-", "M", "i", "n", "d", "M", "a", "p", "p", "e", "r">>>>,
          <<<<".", "m", "m", "f">>, <<"a", "p", "p", "l", "i", "c", "a", "t", "i", "o", "n", "/", "v", "n", "d", ".", "s", "m", "a", "f">>>>,
          <<<<".", "n", "o", "t", "e", "b", "o", "o", "k">>, <<"a", "p", "p", "l", "i", "c", "a", "t", "i", "o", "n", "/", "v", "n", "d", ".", "s", "m", "a", "r", "t", ".", "n", "o", "t", "e", "b", "o", "o", "k">>>>,
          <<<<".", "t", "e", "a", "c", "h", "e", "r">>, <<"a", "p", "p", "l", "i", "c", "a", "t", "i", "o", "n", "/", "v", "n", "d", ".", "s", "m", "a", "r", "t", ".", "t", "e", "a", "c", "h", "e", "r">>>>,
          <<<<".", "p", "t", "r", "o", "m">>, <<"a", "p", "p", "l", "i", "c", "a", "t", "i", "o", "n", "/", "v", "n", "d", ".", "s", "n", "e", "s", "d", "e", "v", "-", "p", "a", "g", "e", "-", "t", "a", "b", "l", "e">>>>,
          <<<<".", "p", "t">>, <<"a", "p", "p", "l", "i", "c", "a", "t", "i", "o", "n", "/", "v", "n", "d", ".", "s", "n", "e", "s", "d", "e", "v", "-", "p", "a", "g", "e", "-", "t", "a", "b", "l", "e">>>>,
          <<<<".", "f", "o">>, <<"a", "p", "p", "l", "i", "c", "a", "t", "i", "o", "n", "/", "v", "n", "d", ".", "s", "o", "f", "t", "w", "a", "r", "e", "6", "0", "2", ".", "f", "i", "l", "l", "e", "r", ".", "f", "o", "r", "m", "+", "x", "m", "l">>>>,
          <<<<".", "z", "f", "o">>, <<"a", "p", "p", "l", "i", "c", "a", "t", "i", "o", "n", "/", "v", "n", "d", ".", "s", "o", "f", "t", "w", "a", "r", "e", "6", "0", "2", ".", "f", "i", "l", "l", "e", "r", ".", "f", "o", "r", "m", "-", "x", "m", "l", "-", "z", "i", "p">>>>,
          <<<<".", "s", "d", "k", "m">>, <<"a", "p", "p", "l", "i", "c", "a", "t", "i", "o", "n", "/", "v", "n", "d", ".", "s", "o", "l", "e", "n", "t", ".", "s", "d", "k", "m", "+", "x", "m", "l">>>>,
          <<<<".", "s", "d", "k", "d">>, <<"a", "p", "p", "l", "i", "c", "a", "t", "i", "o", "n", "/", "v", "n", "d", ".", "s", "o", "l", "e", "n", "t", ".", "s", "d", "k", "m", "+", "x", "m", "l">>>>,
          <<<<".", "d", "x", "p">>, <<"a", "p", "p", "l", "i", "c", "a", "t", "i", "o", "n", "/", "v", "n", "d", ".", "s", "p", "o", "t", "f", "i", "r", "e", ".", "d", "x", "p">>>>,
          <<<<".", "s", "f", "s">>, <<"a", "p", "p", "l", "i", "c", "a", "t", "i", "o", "n", "/", "v", "n", "d", ".", "s", "p", "o", "t", "f", "i", "r", "e", ".", "s", "f", "s">>>>,
          <<<<".", "s", "q", "l", "i", "t", "e">>, <<"a", "p", "p", "l", "i", "c", "a", "t", "i", "o", "n", "/", "v", "n", "d", ".", "s", "q", "l", "i", "t", "e", "3">>>>,
          <<<<".", "s", "q", "l", "i", "t", "e", "3">>, <<"a", "p", "p", "l", "i", "c", "a", "t", "i", "o", "n", "/", "v", "n", "d", ".", "s", "q", "l", "i", "t", "e", "3">>>>,
          <<<<".", "s", "d", "c">>, <<"a", "p", "p", "l", "i", "c", "a", "t", "i", "o", "n", "/", "v", "n", "d", ".", "s", "t", "a", "r", "d", "i", "v", "i", "s", "i", "o", "n", ".", "c", "a", "l", "c">>>>,
          <<<<".", "s", "d", "s">>, <<"a", "p", "p", "l", "i", "c", "a", "t", "i", "o", "n", "/", "v", "n", "d", ".", "s", "t", "a", "r", "d", "i", "v", "i", "s", "i", "o", "n", ".", "c", "h", "a", "r", "t">>>>,
          <<<<".", "s", "d", "a">>, <<"a", "p", "p", "l", "i", "c", "a", "t", "i", "o", "n", "/", "v", "n", "d", ".", "s", "t", "a", "r", "d", "i", "v", "i", "s", "i", "o", "n", ".", "d", "r", "a", "w">>>>,
          <<<<".", "s", "d", "d">>, <<"a", "p", "p", "l", "i", "c", "a", "t", "i", "o", "n", "/", "v", "n", "d", ".", "s", "t", "a", "r", "d", "i", "v", "i", "s", "i", "o", "n", ".", "i", "m", "p", "r", "e", "s", "s">>>>,
          <<<<".", "s", "m", "f">>, <<"a", "p", "p", "l", "i", "c", "a", "t", "i", "o", "n", "/", "v", "n", "d", ".", "s", "t", "a", "r", "d", "i", "v", "i", "s", "i", "o", "n", ".", "m", "a", "t", "h">>>>,
          <<<<".", "s", "d", "w">>, <<"a", "p", "p", "l", "i", "c", "a", "t", "i", "o", "n", "/", "v", "n", "d", ".", "s", "t", "a", "r", "d", "i", "v", "i", "s", "i", "o", "n", ".", "w", "r", "i", "t", "e", "r">>>>,
          <<<<".", "s", "g", "l">>, <<"a", "p", "p", "l", "i", "c", "a", "t", "i", "o", "n", "/", "v", "n", "d", ".", "s", "t", "a", "r", "d", "i", "v", "i", "s", "i", "o", "n", ".", "w", "r", "i", "t", "e", "r", "-", "g", "l", "o", "b", "a", "l">>>>,
          <<<<".", "s", "m", "z", "i", "p">>, <<"a", "p", "p", "l", "i", "c", "a", "t", "i", "o", "n", "/", "v", "n", "d", ".", "s", "t", "e", "p", "m", "a", "n", "i", "a", ".", "p", "a", "c", "k", "a", "g", "e">>>>,
          <<<<".", "s", "m">>, <<"a", "p", "p", "l", "i", "c", "a", "t", "i", "o", "n", "/", "v", "n", "d", ".", "s", "t", "e", "p", "m", "a", "n", "i", "a", ".", "s", "t", "e", "p", "c", "h", "a", "r", "t">>>>,
          <<<<".", "w", "a", "d", "l">>, <<"a", "p", "p", "l", "i", "c", "a", "t", "i", "o", "n", "/", "v", "n", "d", ".", "s", "u", "n", ".", "w", "a", "d", "l", "+", "x", "m", "l">>>>,
          <<<<".", "s", "x", "c">>, <<"a", "p", "p", "l", "i", "c", "a", "t", "i", "o", "n", "/", "v", "n", "d", ".", "s", "u", "n", ".", "x", "m", "l", ".", "c", "a", "l", "c">>>>,
          <<<<".", "s", "t", "c">>, <<"a", "p", "p", "l", "i", "c", "a", "t", "i", "o", "n", "/", "v", "n", "d", ".", "s", "u", "n", ".", "x", "m", "l", ".", "c", "a", "l", "c", ".", "t", "e", "m", "p", "l", "a", "t", "e">>>>,
          <<<<".", "s", "x", "d">>, <<"a", "p", "p", "l", "i", "c", "a", "t", "i", "o", "n", "/", "v", "n", "d", ".", "s", "u", "n", ".", "x", "m", "l", ".", "d", "r", "a", "w">>>>,
          <<<<".", "s", "t", "d">>, <<"a", "p", "p", "l", "i", "c", "a", "t", "i", "o", "n", "/", "v", "n", "d", ".", "s", "u", "n", ".", "x", "m", "l", ".", "d", "r", "a", "w", ".", "t", "e", "m", "p", "l", "a", "t", "e">>>>,
          <<<<".", "s", "x", "i">>, <<"a", "p", "p", "l", "i", "c", "a", "t", "i", "o", "n", "/", "v", "n", "d", ".", "s", "u", "n", ".", "x", "m", "l", ".", "i", "m", "p", "r", "e", "s", "s">>>>,
          <<<<".", "s", "t", "i">>, <<"a", "p", "p", "l", "i", "c", "a", "t", "i", "o", "n", "/", "v", "n", "d", ".", "s", "u", "n", ".", "x", "m", "l", ".", "i", "m", "p", "r", "e", "s", "s", ".", "t", "e", "m", "p", "l", "a", "t", "e">>>>,
          <<<<".", "s", "x", "m">>, <<"a", "p", "p", "l", "i", "c", "a", "t", "i", "o", "n", "/", "v", "n", "d", ".", "s", "u", "n", ".", "x", "m", "l", ".", "m", "a", "t", "h">>>>,
          <<<<".", "s", "x", "w">>, <<"a", "p", "p", "l", "i", "c", "a", "t", "i", "o", "n", "/", "v", "n", "d", ".", "s", "u", "n", ".", "x", "m", "l", ".", "w", "r", "i", "t", "e", "r">>>>,
          <<<<".", "s", "x", "g">>, <<"a", "p", "p", "l", "i", "c", "a", "t", "i", "o", "n", "/", "v", "n", "d", ".", "s", "u", "n", ".", "x", "m", "l", ".", "w", "r", "i", "t", "e", "r", ".", "g", "l", "o", "b", "a", "l">>>>,
          <<<<".", "s", "t", "w">>, <<"a", "p", "p", "l", "i", "c", "a", "t", "i", "o", "n", "/", "v", "n", "d", ".", "s", "u", "n", ".", "x", "m", "l", ".", "w", "r", "i", "t", "e", "r", ".", "t", "e", "m", "p", "l", "a", "t", "e">>>>,
          <<<<".", "s", "u", "s">>, <<"a", "p", "p", "l", "i", "c", "a", "t", "i", "o", "n", "/", "v", "n", "d", ".", "s", "u", "s", "-", "c", "a", "l", "e", "n", "d", "a", "r">>>>,
          <<<<".", "s", "u", "s", "p">>, <<"a", "p", "p", "l", "i", "c", "a", "t", "i", "o", "n", "/", "v", "n", "d", ".", "s", "u", "s", "-", "c", "a", "l", "e", "n", "d", "a", "r">>>>,
          <<<<".", "m", "l", "2">>, <<"a", "p", "p", "l", "i", "c", "a", "t", "i", "o", "n", "/", "v", "n", "d", ".", "s", "y", "b", "y", "l", ".", "m", "o", "l", "2">>>>,
          <<<<".", "m", "o", "l", "2">>, <<"a", "p", "p", "l", "i", "c", "a", "t", "i", "o", "n", "/", "v", "n", "d", ".", "s", "y", "b", "y", "l", ".", "m", "o", "l", "2">>>>,
          <<<<".", "s", "y", "2">>, <<"a", "p", "p", "l", "i", "c", "a", "t", "i", "o", "n", "/", "v", "n", "d", ".", "s", "y", "b", "y", "l", ".", "m", "o", "l", "2">>>>,
          <<<<".", "s", "c", "l">>, <<"a", "p", "p", "l", "i", "c", "a", "t", "i", "o", "n", "/", "v", "n", "d", ".", "s", "y", "c", "l", "e", "+", "x", "m", "l">>>>,
          <<<<".", "s", "y", "f", "t", ".", "j", "s", "o", "n">>, <<"a", "p", "p", "l", "i", "c", "a", "t", "i", "o", "n", "/", "v", "n", "d", ".", "s", "y", "f", "t", "+", "j", "s", "o", "n">>>>,
          <<<<".", "s", "i", "s">>, <<"a", "p", "p", "l", "i", "c", "a", "t", "i", "o", "n", "/", "v", "n", "d", ".", "s", "y", "m", "b", "i", "a", "n", ".", "i", "n", "s", "t", "a", "l", "l">>>>,
          <<<<".", "x", "s", "m">>, <<"a", "p", "p", "l", "i", "c", "a", "t", "i", "o", "n", "/", "v", "n", "d", ".", "s", "y", "n", "c", "m", "l", "+", "x", "m", "l">>>>,
          <<<<".", "b", "d", "m">>, <<"a", "p", "p", "l", "i", "c", "a", "t", "i", "o", "n", "/", "v", "n", "d", ".", "s", "y", "n", "c", "m", "l", ".", "d", "m", "+", "w", "b", "x", "m", "l">>>>,
          <<<<".", "x", "d", "m">>, <<"a", "p", "p", "l", "i", "c", "a", "t", "i", "o", "n", "/", "v", "n", "d", ".", "s", "y", "n", "c", "m", "l", ".", "d", "m", "+", "x", "m", "l">>>>,
          <<<<".", "d", "d", "f">>, <<"a", "p", "p", "l", "i", "c", "a", "t", "i", "o", "n", "/", "v", "n", "d", ".", "s", "y", "n", "c", "m", "l", ".", "d", "m", "d", "d", "f", "+", "x", "m", "l">>>>,
          <<<<".", "t", "a", "o">>, <<"a", "p", "p", "l", "i", "c", "a", "t", "i", "o", "n", "/", "v", "n", "d", ".", "t", "a", "o", ".", "i", "n", "t", "e", "n", "t", "-", "m", "o", "d", "u", "l", "e", "-", "a", "r", "c", "h", "i", "v", "e">>>>,
          <<<<".", "p", "c", "a", "p">>, <<"a", "p", "p", "l", "i", "c", "a", "t", "i", "o", "n", "/", "v", "n", "d", ".", "t", "c", "p", "d", "u", "m", "p", ".", "p", "c", "a", "p">>>>,
          <<<<".", "c", "a", "p">>, <<"a", "p", "p", "l", "i", "c", "a", "t", "i", "o", "n", "/", "v", "n", "d", ".", "t", "c", "p", "d", "u", "m", "p", ".", "p", "c", "a", "p">>>>,
          <<<<".", "d", "m", "p">>, <<"a", "p", "p", "l", "i", "c", "a", "t", "i", "o", "n", "/", "v", "n", "d", ".", "t", "c", "p", "d", "u", "m", "p", ".", "p", "c", "a", "p">>>>,
          <<<<".", "q", "v", "d">>, <<"a", "p", "p", "l", "i", "c", "a", "t", "i", "o", "n", "/", "v", "n", "d", ".", "t", "h", "e", "q", "v", "d">>>>,
          <<<<".", "p", "p", "t", "t", "c">>, <<"a", "p", "p", "l", "i", "c", "a", "t", "i", "o", "n", "/", "v", "n", "d", ".", "t", "h", "i", "n", "k", "-", "c", "e", "l", "l", ".", "p", "p", "t", "t", "c", "+", "j", "s", "o", "n">>>>,
          <<<<".", "v", "f", "r">>, <<"a", "p", "p", "l", "i", "c", "a", "t", "i", "o", "n", "/", "v", "n", "d", ".", "t", "m", "l">>>>,
          <<<<".", "v", "i", "a", "f", "r", "a", "m", "e">>, <<"a", "p", "p", "l", "i", "c", "a", "t", "i", "o", "n", "/", "v", "n", "d", ".", "t", "m", "l">>>>,
          <<<<".", "t", "m", "o">>, <<"a", "p", "p", "l", "i", "c", "a", "t", "i", "o", "n", "/", "v", "n", "d", ".", "t", "m", "o", "b", "i", "l", "e", "-", "l", "i", "v", "e", "t", "v">>>>,
          <<<<".", "t", "p", "t">>, <<"a", "p", "p", "l", "i", "c", "a", "t", "i", "o", "n", "/", "v", "n", "d", ".", "t", "r", "i", "d", ".", "t", "p", "t">>>>,
          <<<<".", "m", "x", "s">>, <<"a", "p", "p", "l", "i", "c", "a", "t", "i", "o", "n", "/", "v", "n", "d", ".", "t", "r", "i", "s", "c", "a", "p", "e", ".", "m", "x", "s">>>>,
          <<<<".", "t", "r", "a">>, <<"a", "p", "p", "l", "i", "c", "a", "t", "i", "o", "n", "/", "v", "n", "d", ".", "t", "r", "u", "e", "a", "p", "p">>>>,
          <<<<".", "u", "f", "d", "l">>, <<"a", "p", "p", "l", "i", "c", "a", "t", "i", "o", "n", "/", "v", "n", "d", ".", "u", "f", "d", "l">>>>,
          <<<<".", "u", "f", "d">>, <<"a", "p", "p", "l", "i", "c", "a", "t", "i", "o", "n", "/", "v", "n", "d", ".", "u", "f", "d", "l">>>>,
          <<<<".", "f", "r", "m">>, <<"a", "p", "p", "l", "i", "c", "a", "t", "i", "o", "n", "/", "x", "-", "m", "a", "k", "e", "r">>>>,
          <<<<".", "u", "t", "z">>, <<"a", "p", "p", "l", "i", "c", "a", "t", "i", "o", "n", "/", "v", "n", "d", ".", "u", "i", "q", ".", "t", "h", "e", "m", "e">>>>,
          <<<<".", "u", "m", "j">>, <<"a", "p", "p", "l", "i", "c", "a", "t", "i", "o", "n", "/", "v", "n", "d", ".", "u", "m", "a", "j", "i", "n">>>>,
          <<<<".", "u", "n", "i", "t", "y", "w", "e", "b">>, <<"a", "p", "p", "l", "i", "c", "a", "t", "i", "o", "n", "/", "v", "n", "d", ".", "u", "n", "i", "t", "y">>>>,
          <<<<".", "u", "o", "m", "l">>, <<"a", "p", "p", "l", "i", "c", "a", "t", "i", "o", "n", "/", "v", "n", "d", ".", "u", "o", "m", "l", "+", "x", "m", "l">>>>,
          <<<<".", "u", "o">>, <<"a", "p", "p", "l", "i", "c", "a", "t", "i", "o", "n", "/", "v", "n", "d", ".", "u", "o", "m", "l", "+", "x", "m", "l">>>>,
          <<<<".", "u", "r", "i", "m">>, <<"a", "p", "p", "l", "i", "c", "a", "t", "i", "o", "n", "/", "v", "n", "d", ".", "u", "r", "i", "-", "m", "a", "p">>>>,
          <<<<".", "u", "r", "i", "m", "a", "p">>, <<"a", "p", "p", "l", "i", "c", "a", "t", "i", "o", "n", "/", "v", "n", "d", ".", "u", "r", "i", "-", "m", "a", "p">>>>,
          <<<<".", "v", "m", "t">>, <<"a", "p", "p", "l", "i", "c", "a", "t", "i", "o", "n", "/", "v", "n", "d", ".", "v", "a", "l", "v", "e", ".", "s", "o", "u", "r", "c", "e", ".", "m", "a", "t", "e", "r", "i", "a", "l">>>>,
          <<<<".", "v", "c", "x">>, <<"a", "p", "p", "l", "i", "c", "a", "t", "i", "o", "n", "/", "v", "n", "d", ".", "v", "c", "x">>>>,
          <<<<".", "m", "x", "i">>, <<"a", "p", "p", "l", "i", "c", "a", "t", "i", "o", "n", "/", "v", "n", "d", ".", "v", "d", "-", "s", "t", "u", "d", "y">>>>,
          <<<<".", "s", "t", "u", "d", "y", "-", "i", "n", "t", "e", "r">>, <<"a", "p", "p", "l", "i", "c", "a", "t", "i", "o", "n", "/", "v", "n", "d", ".", "v", "d", "-", "s", "t", "u", "d", "y">>>>,
          <<<<".", "m", "o", "d", "e", "l", "-", "i", "n", "t", "e", "r">>, <<"a", "p", "p", "l", "i", "c", "a", "t", "i", "o", "n", "/", "v", "n", "d", ".", "v", "d", "-", "s", "t", "u", "d", "y">>>>,
          <<<<".", "v", "w", "x">>, <<"a", "p", "p", "l", "i", "c", "a", "t", "i", "o", "n", "/", "v", "n", "d", ".", "v", "e", "c", "t", "o", "r", "w", "o", "r", "k", "s">>>>,
          <<<<".", "a", "i", "o", "n">>, <<"a", "p", "p", "l", "i", "c", "a", "t", "i", "o", "n", "/", "v", "n", "d", ".", "v", "e", "r", "i", "t", "o", "n", "e", ".", "a", "i", "o", "n", "+", "j", "s", "o", "n">>>>,
          <<<<".", "v", "t", "n", "s", "t", "d">>, <<"a", "p", "p", "l", "i", "c", "a", "t", "i", "o", "n", "/", "v", "n", "d", ".", "v", "e", "r", "i", "t", "o", "n", "e", ".", "a", "i", "o", "n", "+", "j", "s", "o", "n">>>>,
          <<<<".", "i", "s", "t", "c">>, <<"a", "p", "p", "l", "i", "c", "a", "t", "i", "o", "n", "/", "v", "n", "d", ".", "v", "e", "r", "y", "a", "n", "t", ".", "t", "h", "i", "n">>>>,
          <<<<".", "i", "s", "w", "s">>, <<"a", "p", "p", "l", "i", "c", "a", "t", "i", "o", "n", "/", "v", "n", "d", ".", "v", "e", "r", "y", "a", "n", "t", ".", "t", "h", "i", "n">>>>,
          <<<<".", "V", "E", "S">>, <<"a", "p", "p", "l", "i", "c", "a", "t", "i", "o", "n", "/", "v", "n", "d", ".", "v", "e", "s", ".", "e", "n", "c", "r", "y", "p", "t", "e", "d">>>>,
          <<<<".", "v", "s", "c">>, <<"a", "p", "p", "l", "i", "c", "a", "t", "i", "o", "n", "/", "v", "n", "d", ".", "v", "i", "d", "s", "o", "f", "t", ".", "v", "i", "d", "c", "o", "n", "f", "e", "r", "e", "n", "c", "e">>>>,
          <<<<".", "v", "s", "d">>, <<"a", "p", "p", "l", "i", "c", "a", "t", "i", "o", "n", "/", "v", "n", "d", ".", "v", "i", "s", "i", "o">>>>,
          <<<<".", "v", "s", "t">>, <<"a", "p", "p", "l", "i", "c", "a", "t", "i", "o", "n", "/", "v", "n", "d", ".", "v", "i", "s", "i", "o">>>>,
          <<<<".", "v", "s", "w">>, <<"a", "p", "p", "l", "i", "c", "a", "t", "i", "o", "n", "/", "v", "n", "d", ".", "v", "i", "s", "i", "o">>>>,
          <<<<".", "v", "s", "s">>, <<"a", "p", "p", "l", "i", "c", "a", "t", "i", "o", "n", "/", "v", "n", "d", ".", "v", "i", "s", "i", "o">>>>,
          <<<<".", "v", "i", "s">>, <<"a", "p", "p", "l", "i", "c", "a", "t", "i", "o", "n", "/", "v", "n", "d", ".", "v", "i", "s", "i", "o", "n", "a", "r", "y">>>>,
          <<<<".", "v", "s", "f">>, <<"a", "p", "p", "l", "i", "c", "a", "t", "i", "o", "n", "/", "v", "n", "d", ".", "v", "s", "f">>>>,
          <<<<".", "s", "i", "c">>, <<"a", "p", "p", "l", "i", "c", "a", "t", "i", "o", "n", "/", "v", "n", "d", ".", "w", "a", "p", ".", "s", "i", "c">>>>,
          <<<<".", "s", "l", "c">>, <<"a", "p", "p", "l", "i", "c", "a", "t", "i", "o", "n", "/", "v", "n", "d", ".", "w", "a", "p", ".", "s", "l", "c">>>>,
          <<<<".", "w", "b", "x", "m", "l">>, <<"a", "p", "p", "l", "i", "c", "a", "t", "i", "o", "n", "/", "v", "n", "d", ".", "w", "a", "p", ".", "w", "b", "x", "m", "l">>>>,
          <<<<".", "w", "m", "l", "c">>, <<"a", "p", "p", "l", "i", "c", "a", "t", "i", "o", "n", "/", "v", "n", "d", ".", "w", "a", "p", ".", "w", "m", "l", "c">>>>,
          <<<<".", "w", "m", "l", "s", "c">>, <<"a", "p", "p", "l", "i", "c", "a", "t", "i", "o", "n", "/", "v", "n", "d", ".", "w", "a", "p", ".", "w", "m", "l", "s", "c", "r", "i", "p", "t", "c">>>>,
          <<<<".", "w", "a", "f", "l">>, <<"a", "p", "p", "l", "i", "c", "a", "t", "i", "o", "n", "/", "v", "n", "d", ".", "w", "a", "s", "m", "f", "l", "o", "w", ".", "w", "a", "f", "l">>>>,
          <<<<".", "w", "t", "b">>, <<"a", "p", "p", "l", "i", "c", "a", "t", "i", "o", "n", "/", "v", "n", "d", ".", "w", "e", "b", "t", "u", "r", "b", "o">>>>,
          <<<<".", "p", "2", "p">>, <<"a", "p", "p", "l", "i", "c", "a", "t", "i", "o", "n", "/", "v", "n", "d", ".", "w", "f", "a", ".", "p", "2", "p">>>>,
          <<<<".", "w", "s", "c">>, <<"a", "p", "p", "l", "i", "c", "a", "t", "i", "o", "n", "/", "v", "n", "d", ".", "w", "f", "a", ".", "w", "s", "c">>>>,
          <<<<".", "w", "m", "c">>, <<"a", "p", "p", "l", "i", "c", "a", "t", "i", "o", "n", "/", "v", "n", "d", ".", "w", "m", "c">>>>,
          <<<<".", "n", "b">>, <<"a", "p", "p", "l", "i", "c", "a", "t", "i", "o", "n", "/", "v", "n", "d", ".", "w", "o", "l", "f", "r", "a", "m", ".", "m", "a", "t", "h", "e", "m", "a", "t", "i", "c", "a">>>>,
          <<<<".", "m">>, <<"a", "p", "p", "l", "i", "c", "a", "t", "i", "o", "n", "/", "v", "n", "d", ".", "w", "o", "l", "f", "r", "a", "m", ".", "m", "a", "t", "h", "e", "m", "a", "t", "i", "c", "a", ".", "p", "a", "c", "k", "a", "g", "e">>>>,
          <<<<".", "n", "b", "p">>, <<"a", "p", "p", "l", "i", "c", "a", "t", "i", "o", "n", "/", "v", "n", "d", ".", "w", "o", "l", "f", "r", "a", "m", ".", "p", "l", "a", "y", "e", "r">>>>,
          <<<<".", "w", "p", "d">>, <<"a", "p", "p", "l", "i", "c", "a", "t", "i", "o", "n", "/", "v", "n", "d", ".", "w", "o", "r", "d", "p", "e", "r", "f", "e", "c", "t">>>>,
          <<<<".", "w", "q", "d">>, <<"a", "p", "p", "l", "i", "c", "a", "t", "i", "o", "n", "/", "v", "n", "d", ".", "w", "q", "d">>>>,
          <<<<".", "s", "t", "f">>, <<"a", "p", "p", "l", "i", "c", "a", "t", "i", "o", "n", "/", "v", "n", "d", ".", "w", "t", ".", "s", "t", "f">>>>,
          <<<<".", "w", "v">>, <<"a", "p", "p", "l", "i", "c", "a", "t", "i", "o", "n", "/", "v", "n", "d", ".", "w", "v", ".", "c", "s", "p", "+", "w", "b", "x", "m", "l">>>>,
          <<<<".", "x", "a", "r">>, <<"a", "p", "p", "l", "i", "c", "a", "t", "i", "o", "n", "/", "v", "n", "d", ".", "x", "a", "r", "a">>>>,
          <<<<".", "x", "f", "d", "l">>, <<"a", "p", "p", "l", "i", "c", "a", "t", "i", "o", "n", "/", "v", "n", "d", ".", "x", "f", "d", "l">>>>,
          <<<<".", "x", "f", "d">>, <<"a", "p", "p", "l", "i", "c", "a", "t", "i", "o", "n", "/", "v", "n", "d", ".", "x", "f", "d", "l">>>>,
          <<<<".", "c", "p", "k", "g">>, <<"a", "p", "p", "l", "i", "c", "a", "t", "i", "o", "n", "/", "v", "n", "d", ".", "x", "m", "p", "i", "e", ".", "c", "p", "k", "g">>>>,
          <<<<".", "d", "p", "k", "g">>, <<"a", "p", "p", "l", "i", "c", "a", "t", "i", "o", "n", "/", "v", "n", "d", ".", "x", "m", "p", "i", "e", ".", "d", "p", "k", "g">>>>,
          <<<<".", "p", "p", "k", "g">>, <<"a", "p", "p", "l", "i", "c", "a", "t", "i", "o", "n", "/", "v", "n", "d", ".", "x", "m", "p", "i", "e", ".", "p", "p", "k", "g">>>>,
          <<<<".", "x", "l", "i", "m">>, <<"a", "p", "p", "l", "i", "c", "a", "t", "i", "o", "n", "/", "v", "n", "d", ".", "x", "m", "p", "i", "e", ".", "x", "l", "i", "m">>>>,
          <<<<".", "h", "v", "d">>, <<"a", "p", "p", "l", "i", "c", "a", "t", "i", "o", "n", "/", "v", "n", "d", ".", "y", "a", "m", "a", "h", "a", ".", "h", "v", "-", "d", "i", "c">>>>,
          <<<<".", "h", "v", "s">>, <<"a", "p", "p", "l", "i", "c", "a", "t", "i", "o", "n", "/", "v", "n", "d", ".", "y", "a", "m", "a", "h", "a", ".", "h", "v", "-", "s", "c", "r", "i", "p", "t">>>>,
          <<<<".", "h", "v", "p">>, <<"a", "p", "p", "l", "i", "c", "a", "t", "i", "o", "n", "/", "v", "n", "d", ".", "y", "a", "m", "a", "h", "a", ".", "h", "v", "-", "v", "o", "i", "c", "e">>>>,
          <<<<".", "o", "s", "f">>, <<"a", "p", "p", "l", "i", "c", "a", "t", "i", "o", "n", "/", "v", "n", "d", ".", "y", "a", "m", "a", "h", "a", ".", "o", "p", "e", "n", "s", "c", "o", "r", "e", "f", "o", "r", "m", "a", "t">>>>,
          <<<<".", "s", "a", "f">>, <<"a", "p", "p", "l", "i", "c", "a", "t", "i", "o", "n", "/", "v", "n", "d", ".", "y", "a", "m", "a", "h", "a", ".", "s", "m", "a", "f", "-", "a", "u", "d", "i", "o">>>>,
          <<<<".", "s", "p", "f">>, <<"a", "p", "p", "l", "i", "c", "a", "t", "i", "o", "n", "/", "v", "n", "d", ".", "y", "a", "m", "a", "h", "a", ".", "s", "m", "a", "f", "-", "p", "h", "r", "a", "s", "e">>>>,
          <<<<".", "y", "m", "e">>, <<"a", "p", "p", "l", "i", "c", "a", "t", "i", "o", "n", "/", "v", "n", "d", ".", "y", "a", "o", "w", "e", "m", "e">>>>,
          <<<<".", "c", "m", "p">>, <<"a", "p", "p", "l", "i", "c", "a", "t", "i", "o", "n", "/", "v", "n", "d", ".", "y", "e", "l", "l", "o", "w", "r", "i", "v", "e", "r", "-", "c", "u", "s", "t", "o", "m", "-", "m", "e", "n", "u">>>>,
          <<<<".", "z", "i", "r">>, <<"a", "p", "p", "l", "i", "c", "a", "t", "i", "o", "n", "/", "v", "n", "d", ".", "z", "u", "l">>>>,
          <<<<".", "z", "i", "r", "z">>, <<"a", "p", "p", "l", "i", "c", "a", "t", "i", "o", "n", "/", "v", "n", "d", ".", "z", "u", "l">>>>,
          <<<<".", "z", "a", "z">>, <<"a", "p", "p", "l", "i", "c", "a", "t", "i", "o", "n", "/", "v", "n", "d", ".", "z", "z", "a", "z", "z", ".", "d", "e", "c", "k", "+", "x", "m", "l">>>>,
          <<<<".", "v", "x", "m", "l">>, <<"a", "p", "p", "l", "i", "c", "a", "t", "i", "o", "n", "/", "v", "o", "i", "c", "e", "x", "m", "l", "+", "x", "m", "l">>>>,
          <<<<".", "v", "c", "j">>, <<"a", "p", "p", "l", "i", "c", "a", "t", "i", "o", "n", "/", "v", "o", "u", "c", "h", "e", "r", "-", "c", "m", "s", "+", "j", "s", "o", "n">>>>,
          <<<<".", "w", "i", "f">>, <<"a", "p", "p", "l", "i", "c", "a", "t", "i", "o", "n", "/", "w", "a", "t", "c", "h", "e", "r", "i", "n", "f", "o", "+", "x", "m", "l">>>>,
          <<<<".", "w", "g", "t">>, <<"a", "p", "p", "l", "i", "c", "a", "t", "i", "o", "n", "/", "w", "i", "d", "g", "e", "t">>>>,
          <<<<".", "w", "s", "p", "o", "l", "i", "c", "y">>, <<"a", "p", "p", "l", "i", "c", "a", "t", "i", "o", "n", "/", "w", "s", "p", "o", "l", "i", "c", "y", "+", "x", "m", "l">>>>,
          <<<<".", "w", "k">>, <<"a", "p", "p", "l", "i", "c", "a", "t", "i", "o", "n", "/", "x", "-", "1", "2", "3">>>>,
          <<<<".", "7", "z">>, <<"a", "p", "p", "l", "i", "c", "a", "t", "i", "o", "n", "/", "x", "-", "7", "z", "-", "c", "o", "m", "p", "r", "e", "s", "s", "e", "d">>>>,
          <<<<".", "a", "b", "w">>, <<"a", "p", "p", "l", "i", "c", "a", "t", "i", "o", "n", "/", "x", "-", "a", "b", "i", "w", "o", "r", "d">>>>,
          <<<<".", "d", "m", "g">>, <<"a", "p", "p", "l", "i", "c", "a", "t", "i", "o", "n", "/", "x", "-", "a", "p", "p", "l", "e", "-", "d", "i", "s", "k", "i", "m", "a", "g", "e">>>>,
          <<<<".", "t", "o", "r", "r", "e", "n", "t">>, <<"a", "p", "p", "l", "i", "c", "a", "t", "i", "o", "n", "/", "x", "-", "b", "i", "t", "t", "o", "r", "r", "e", "n", "t">>>>,
          <<<<".", "c", "d", "a">>, <<"a", "p", "p", "l", "i", "c", "a", "t", "i", "o", "n", "/", "x", "-", "c", "d", "f">>>>,
          <<<<".", "v", "c", "d">>, <<"a", "p", "p", "l", "i", "c", "a", "t", "i", "o", "n", "/", "x", "-", "c", "d", "l", "i", "n", "k">>>>,
          <<<<".", "m", "p", "h">>, <<"a", "p", "p", "l", "i", "c", "a", "t", "i", "o", "n", "/", "x", "-", "c", "o", "m", "s", "o", "l">>>>,
          <<<<".", "d", "c", "r">>, <<"a", "p", "p", "l", "i", "c", "a", "t", "i", "o", "n", "/", "x", "-", "d", "i", "r", "e", "c", "t", "o", "r">>>>,
          <<<<".", "d", "i", "r">>, <<"a", "p", "p", "l", "i", "c", "a", "t", "i", "o", "n", "/", "x", "-", "d", "i", "r", "e", "c", "t", "o", "r">>>>,
          <<<<".", "d", "x", "r">>, <<"a", "p", "p", "l", "i", "c", "a", "t", "i", "o", "n", "/", "x", "-", "d", "i", "r", "e", "c", "t", "o", "r">>>>,
          <<<<".", "w", "a", "d">>, <<"a", "p", "p", "l", "i", "c", "a", "t", "i", "o", "n", "/", "x", "-", "d", "o", "o", "m">>>>,
          <<<<".", "p", "f", "a">>, <<"a", "p", "p", "l", "i", "c", "a", "t", "i", "o", "n", "/", "x", "-", "f", "o", "n", "t">>>>,
          <<<<".", "p", "f", "b">>, <<"a", "p", "p", "l", "i", "c", "a", "t", "i", "o", "n", "/", "x", "-", "f", "o", "n", "t">>>>,
          <<<<".", "g", "s", "f">>, <<"a", "p", "p", "l", "i", "c", "a", "t", "i", "o", "n", "/", "x", "-", "f", "o", "n", "t">>>>,
          <<<<".", "p", "c", "f">>, <<"a", "p", "p", "l", "i", "c", "a", "t", "i", "o", "n", "/", "x", "-", "f", "o", "n", "t", "-", "p", "c", "f">>>>,
          <<<<".", "p", "c", "f", ".", "Z">>, <<"a", "p", "p", "l", "i", "c", "a", "t", "i", "o", "n", "/", "x", "-", "f", "o", "n", "t", "-", "p", "c", "f">>>>,
          <<<<".", "m", "m">>, <<"a", "p", "p", "l", "i", "c", "a", "t", "i", "o", "n", "/", "x", "-", "f", "r", "e", "e", "m", "i", "n", "d">>>>,
          <<<<".", "g", "a", "n">>, <<"a", "p", "p", "l", "i", "c", "a", "t", "i", "o", "n", "/", "x", "-", "g", "a", "n", "t", "t", "p", "r", "o", "j", "e", "c", "t">>>>,
          <<<<".", "g", "n", "u", "m", "e", "r", "i", "c">>, <<"a", "p", "p", "l", "i", "c", "a", "t", "i", "o", "n", "/", "x", "-", "g", "n", "u", "m", "e", "r", "i", "c">>>>,
          <<<<".", "s", "g", "f">>, <<"a", "p", "p", "l", "i", "c", "a", "t", "i", "o", "n", "/", "x", "-", "g", "o", "-", "s", "g", "f">>>>,
          <<<<".", "g", "c", "f">>, <<"a", "p", "p", "l", "i", "c", "a", "t", "i", "o", "n", "/", "x", "-", "g", "r", "a", "p", "h", "i", "n", "g", "-", "c", "a", "l", "c", "u", "l", "a", "t", "o", "r">>>>,
          <<<<".", "t", "g", "z">>, <<"a", "p", "p", "l", "i", "c", "a", "t", "i", "o", "n", "/", "x", "-", "g", "t", "a", "r", "-", "c", "o", "m", "p", "r", "e", "s", "s", "e", "d">>>>,
          <<<<".", "t", "a", "z">>, <<"a", "p", "p", "l", "i", "c", "a", "t", "i", "o", "n", "/", "x", "-", "g", "t", "a", "r", "-", "c", "o", "m", "p", "r", "e", "s", "s", "e", "d">>>>,
          <<<<".", "h", "w", "p">>, <<"a", "p", "p", "l", "i", "c", "a", "t", "i", "o", "n", "/", "x", "-", "h", "w", "p">>>>,
          <<<<".", "i", "c", "a">>, <<"a", "p", "p", "l", "i", "c", "a", "t", "i", "o", "n", "/", "x", "-", "i", "c", "a">>>>,
          <<<<".", "i", "n", "f", "o">>, <<"a", "p", "p", "l", "i", "c", "a", "t", "i", "o", "n", "/", "x", "-", "i", "n", "f", "o">>>>,
          <<<<".", "i", "n", "s">>, <<"a", "p", "p", "l", "i", "c", "a", "t", "i", "o", "n", "/", "x", "-", "i", "n", "t", "e", "r", "n", "e", "t", "-", "s", "i", "g", "n", "u", "p">>>>,
          <<<<".", "i", "s", "p">>, <<"a", "p", "p", "l", "i", "c", "a", "t", "i", "o", "n", "/", "x", "-", "i", "n", "t", "e", "r", "n", "e", "t", "-", "s", "i", "g", "n", "u", "p">>>>,
          <<<<".", "i", "i", "i">>, <<"a", "p", "p", "l", "i", "c", "a", "t", "i", "o", "n", "/", "x", "-", "i", "p", "h", "o", "n", "e">>>>,
          <<<<".", "i", "s", "o">>, <<"a", "p", "p", "l", "i", "c", "a", "t", "i", "o", "n", "/", "x", "-", "i", "s", "o", "9", "6", "6", "0", "-", "i", "m", "a", "g", "e">>>>,
          <<<<".", "j", "n", "l", "p">>, <<"a", "p", "p", "l", "i", "c", "a", "t", "i", "o", "n", "/", "x", "-", "j", "a", "v", "a", "-", "j", "n", "l", "p", "-", "f", "i", "l", "e">>>>,
          <<<<".", "j", "m", "z">>, <<"a", "p", "p", "l", "i", "c", "a", "t", "i", "o", "n", "/", "x", "-", "j", "m", "o", "l">>>>,
          <<<<".", "k", "i", "l">>, <<"a", "p", "p", "l", "i", "c", "a", "t", "i", "o", "n", "/", "x", "-", "k", "i", "l", "l", "u", "s", "t", "r", "a", "t", "o", "r">>>>,
          <<<<".", "l", "h", "a">>, <<"a", "p", "p", "l", "i", "c", "a", "t", "i", "o", "n", "/", "x", "-", "l", "h", "a">>>>,
          <<<<".", "l", "y", "x">>, <<"a", "p", "p", "l", "i", "c", "a", "t", "i", "o", "n", "/", "x", "-", "l", "y", "x">>>>,
          <<<<".", "l", "z", "h">>, <<"a", "p", "p", "l", "i", "c", "a", "t", "i", "o", "n", "/", "x", "-", "l", "z", "h">>>>,
          <<<<".", "l", "z", "x">>, <<"a", "p", "p", "l", "i", "c", "a", "t", "i", "o", "n", "/", "x", "-", "l", "z", "x">>>>,
          <<<<".", "m", "a", "k", "e", "r">>, <<"a", "p", "p", "l", "i", "c", "a", "t", "i", "o", "n", "/", "x", "-", "m", "a", "k", "e", "r">>>>,
          <<<<".", "f", "r", "a", "m", "e">>, <<"a", "p", "p", "l", "i", "c", "a", "t", "i", "o", "n", "/", "x", "-", "m", "a", "k", "e", "r">>>>,
          <<<<".", "f", "b">>, <<"a", "p", "p", "l", "i", "c", "a", "t", "i", "o", "n", "/", "x", "-", "m", "a", "k", "e", "r">>>>,
          <<<<".", "b", "o", "o", "k">>, <<"a", "p", "p", "l", "i", "c", "a", "t", "i", "o", "n", "/", "x", "-", "m", "a", "k", "e", "r">>>>,
          <<<<".", "f", "b", "d", "o", "c">>, <<"a", "p", "p", "l", "i", "c", "a", "t", "i", "o", "n", "/", "x", "-", "m", "a", "k", "e", "r">>>>,
          <<<<".", "w", "m", "d">>, <<"a", "p", "p", "l", "i", "c", "a", "t", "i", "o", "n", "/", "x", "-", "m", "s", "-", "w", "m", "d">>>>,
          <<<<".", "w", "m", "z">>, <<"a", "p", "p", "l", "i", "c", "a", "t", "i", "o", "n", "/", "x", "-", "m", "s", "-", "w", "m", "z">>>>,
          <<<<".", "c", "o", "m">>, <<"a", "p", "p", "l", "i", "c", "a", "t", "i", "o", "n", "/", "x", "-", "m", "s", "d", "o", "s", "-", "p", "r", "o", "g", "r", "a", "m">>>>,
          <<<<".", "m", "s", "i">>, <<"a", "p", "p", "l", "i", "c", "a", "t", "i", "o", "n", "/", "x", "-", "m", "s", "i">>>>,
          <<<<".", "p", "a", "c">>, <<"a", "p", "p", "l", "i", "c", "a", "t", "i", "o", "n", "/", "x", "-", "n", "s", "-", "p", "r", "o", "x", "y", "-", "a", "u", "t", "o", "c", "o", "n", "f", "i", "g">>>>,
          <<<<".", "n", "w", "c">>, <<"a", "p", "p", "l", "i", "c", "a", "t", "i", "o", "n", "/", "x", "-", "n", "w", "c">>>>,
          <<<<".", "o", "z", "a">>, <<"a", "p", "p", "l", "i", "c", "a", "t", "i", "o", "n", "/", "x", "-", "o", "z", "-", "a", "p", "p", "l", "i", "c", "a", "t", "i", "o", "n">>>>,
          <<<<".", "p", "7", "r">>, <<"a", "p", "p", "l", "i", "c", "a", "t", "i", "o", "n", "/", "x", "-", "p", "k", "c", "s", "7", "-", "c", "e", "r", "t", "r", "e", "q", "r", "e", "s", "p">>>>,
          <<<<".", "q", "g", "s">>, <<"a", "p", "p", "l", "i", "c", "a", "t", "i", "o", "n", "/", "x", "-", "q", "g", "i", "s">>>>,
          <<<<".", "q", "t", "l">>, <<"a", "p", "p", "l", "i", "c", "a", "t", "i", "o", "n", "/", "x", "-", "q", "u", "i", "c", "k", "t", "i", "m", "e", "p", "l", "a", "y", "e", "r">>>>,
          <<<<".", "r", "d", "p">>, <<"a", "p", "p", "l", "i", "c", "a", "t", "i", "o", "n", "/", "x", "-", "r", "d", "p">>>>,
          <<<<".", "r", "p", "m">>, <<"a", "p", "p", "l", "i", "c", "a", "t", "i", "o", "n", "/", "x", "-", "r", "e", "d", "h", "a", "t", "-", "p", "a", "c", "k", "a", "g", "e", "-", "m", "a", "n", "a", "g", "e", "r">>>>,
          <<<<".", "r", "s", "s">>, <<"a", "p", "p", "l", "i", "c", "a", "t", "i", "o", "n", "/", "x", "-", "r", "s", "s", "+", "x", "m", "l">>>>,
          <<<<".", "r", "b">>, <<"a", "p", "p", "l", "i", "c", "a", "t", "i", "o", "n", "/", "x", "-", "r", "u", "b", "y">>>>,
          <<<<".", "s", "c", "i">>, <<"a", "p", "p", "l", "i", "c", "a", "t", "i", "o", "n", "/", "x", "-", "s", "c", "i", "l", "a", "b">>>>,
          <<<<".", "x", "c", "o", "s">>, <<"a", "p", "p", "l", "i", "c", "a", "t", "i", "o", "n", "/", "x", "-", "s", "c", "i", "l", "a", "b", "-", "x", "c", "o", "s">>>>,
          <<<<".", "s", "c", "r">>, <<"a", "p", "p", "l", "i", "c", "a", "t", "i", "o", "n", "/", "x", "-", "s", "i", "l", "v", "e", "r", "l", "i", "g", "h", "t">>>>,
          <<<<".", "s", "i", "t">>, <<"a", "p", "p", "l", "i", "c", "a", "t", "i", "o", "n", "/", "x", "-", "s", "t", "u", "f", "f", "i", "t">>>>,
          <<<<".", "s", "i", "t", "x">>, <<"a", "p", "p", "l", "i", "c", "a", "t", "i", "o", "n", "/", "x", "-", "s", "t", "u", "f", "f", "i", "t">>>>,
          <<<<".", "g", "f">>, <<"a", "p", "p", "l", "i", "c", "a", "t", "i", "o", "n", "/", "x", "-", "t", "e", "x", "-", "g", "f">>>>,
          <<<<".", "p", "k">>, <<"a", "p", "p", "l", "i", "c", "a", "t", "i", "o", "n", "/", "x", "-", "t", "e", "x", "-", "p", "k">>>>,
          <<<<".", "~">>, <<"a", "p", "p", "l", "i", "c", "a", "t", "i", "o", "n", "/", "x", "-", "t", "r", "a", "s", "h">>>>,
          <<<<".", "%">>, <<"a", "p", "p", "l", "i", "c", "a", "t", "i", "o", "n", "/", "x", "-", "t", "r", "a", "s", "h">>>>,
          <<<<".", "b", "a", "k">>, <<"a", "p", "p", "l", "i", "c", "a", "t", "i", "o", "n", "/", "x", "-", "t", "r", "a", "s", "h">>>>,
          <<<<".", "o", "l", "d">>, <<"a", "p", "p", "l", "i", "c", "a", "t", "i", "o", "n", "/", "x", "-", "t", "r", "a", "s", "h">>>>,
          <<<<".", "s", "i", "k">>, <<"a", "p", "p", "l", "i", "c", "a", "t", "i", "o", "n", "/", "x", "-", "t", "r", "a", "s", "h">>>>,
          <<<<".", "w", "z">>, <<"a", "p", "p", "l", "i", "c", "a", "t", "i", "o", "n", "/", "x", "-", "w", "i", "n", "g", "z">>>>,
          <<<<".", "c", "r", "t">>, <<"a", "p", "p", "l", "i", "c", "a", "t", "i", "o", "n", "/", "x", "-", "x", "5", "0", "9", "-", "c", "a", "-", "c", "e", "r", "t">>>>,
          <<<<".", "f", "i", "g">>, <<"a", "p", "p", "l", "i", "c", "a", "t", "i", "o", "n", "/", "x", "-", "x", "f", "i", "g">>>>,
          <<<<".", "x", "p", "i">>, <<"a", "p", "p", "l", "i", "c", "a", "t", "i", "o", "n", "/", "x", "-", "x", "p", "i", "n", "s", "t", "a", "l", "l">>>>,
          <<<<".", "x", "z">>, <<"a", "p", "p", "l", "i", "c", "a", "t", "i", "o", "n", "/", "x", "-", "x", "z">>>>,
          <<<<".", "x", "a", "v">>, <<"a", "p", "p", "l", "i", "c", "a", "t", "i", "o", "n", "/", "x", "c", "a", "p", "-", "a", "t", "t", "+", "x", "m", "l">>>>,
          <<<<".", "x", "c", "a">>, <<"a", "p", "p", "l", "i", "c", "a", "t", "i", "o", "n", "/", "x", "c", "a", "p", "-", "c", "a", "p", "s", "+", "x", "m", "l">>>>,
          <<<<".", "x", "d", "f">>, <<"a", "p", "p", "l", "i", "c", "a", "t", "i", "o", "n", "/", "x", "c", "a", "p", "-", "d", "i", "f", "f", "+", "x", "m", "l">>>>,
          <<<<".", "x", "e", "l">>, <<"a", "p", "p", "l", "i", "c", "a", "t", "i", "o", "n", "/", "x", "c", "a", "p", "-", "e", "l", "+", "x", "m", "l">>>>,
          <<<<".", "x", "e", "r">>, <<"a", "p", "p", "l", "i", "c", "a", "t", "i", "o", "n", "/", "x", "c", "a", "p", "-", "e", "r", "r", "o", "r", "+", "x", "m", "l">>>>,
          <<<<".", "x", "n", "s">>, <<"a", "p", "p", "l", "i", "c", "a", "t", "i", "o", "n", "/", "x", "c", "a", "p", "-", "n", "s", "+", "x", "m", "l">>>>,
          <<<<".", "x", "f", "d", "f">>, <<"a", "p", "p", "l", "i", "c", "a", "t", "i", "o", "n", "/", "x", "f", "d", "f">>>>,
          <<<<".", "x", "h", "t", "m", "l">>, <<"a", "p", "p", "l", "i", "c", "a", "t", "i", "o", "n", "/", "x", "h", "t", "m", "l", "+", "x", "m", "l">>>>,
          <<<<".", "x", "h", "t", "m">>, <<"a", "p", "p", "l", "i", "c", "a", "t", "i", "o", "n", "/", "x", "h", "t", "m", "l", "+", "x", "m", "l">>>>,
          <<<<".", "x", "h", "t">>, <<"a", "p", "p", "l", "i", "c", "a", "t", "i", "o", "n", "/", "x", "h", "t", "m", "l", "+", "x", "m", "l">>>>,
          <<<<".", "x", "l", "f">>, <<"a", "p", "p", "l", "i", "c", "a", "t", "i", "o", "n", "/", "x", "l", "i", "f", "f", "+", "x", "m", "l">>>>,
          <<<<".", "d", "t", "d">>, <<"a", "p", "p", "l", "i", "c", "a", "t", "i", "o", "n", "/", "x", "m", "l", "-", "d", "t", "d">>>>,
          <<<<".", "m", "o", "d">>, <<"a", "p", "p", "l", "i", "c", "a", "t", "i", "o", "n", "/", "x", "m", "l", "-", "d", "t", "d">>>>,
          <<<<".", "e", "n", "t">>, <<"a", "p", "p", "l", "i", "c", "a", "t", "i", "o", "n", "/", "x", "m", "l", "-", "e", "x", "t", "e", "r", "n", "a", "l", "-", "p", "a", "r", "s", "e", "d", "-", "e", "n", "t", "i", "t", "y">>>>,
          <<<<".", "x", "o", "p">>, <<"a", "p", "p", "l", "i", "c", "a", "t", "i", "o", "n", "/", "x", "o", "p", "+", "x", "m", "l">>>>,
          <<<<".", "x", "s", "l", "t">>, <<"a", "p", "p", "l", "i", "c", "a", "t", "i", "o", "n", "/", "x", "s", "l", "t", "+", "x", "m", "l">>>>,
          <<<<".", "x", "s", "p", "f">>, <<"a", "p", "p", "l", "i", "c", "a", "t", "i", "o", "n", "/", "x", "s", "p", "f", "+", "x", "m", "l">>>>,
          <<<<".", "m", "x", "m", "l">>, <<"a", "p", "p", "l", "i", "c", "a", "t", "i", "o", "n", "/", "x", "v", "+", "x", "m", "l">>>>,
          <<<<".", "x", "h", "v", "m", "l">>, <<"a", "p", "p", "l", "i", "c", "a", "t", "i", "o", "n", "/", "x", "v", "+", "x", "m", "l">>>>,
          <<<<".", "x", "v", "m", "l">>, <<"a", "p", "p", "l", "i", "c", "a", "t", "i", "o", "n", "/", "x", "v", "+", "x", "m", "l">>>>,
          <<<<".", "x", "v", "m">>, <<"a", "p", "p", "l", "i", "c", "a", "t", "i", "o", "n", "/", "x", "v", "+", "x", "m", "l">>>>,
          <<<<".", "y", "a", "n", "g">>, <<"a", "p", "p", "l", "i", "c", "a", "t", "i", "o", "n", "/", "y", "a", "n", "g">>>>,
          <<<<".", "y", "i", "n">>, <<"a", "p", "p", "l", "i", "c", "a", "t", "i", "o", "n", "/", "y", "i", "n", "+", "x", "m", "l">>>>,
          <<<<".", "z", "s", "t">>, <<"a", "p", "p", "l", "i", "c", "a", "t", "i", "o", "n", "/", "z", "s", "t", "d">>>>,
          <<<<".", "7", "2", "6">>, <<"a", "u", "d", "i", "o", "/", "3", "2", "k", "a", "d", "p", "c", "m">>>>,
          <<<<".", "a", "c", "3">>, <<"a", "u", "d", "i", "o", "/", "a", "c", "3">>>>,
          <<<<".", "a", "m", "r">>, <<"a", "u", "d", "i", "o", "/", "A", "M", "R">>>>,
          <<<<".", "A", "M", "R">>, <<"a", "u", "d", "i", "o", "/", "A", "M", "R">>>>,
          <<<<".", "a", "w", "b">>, <<"a", "u", "d", "i", "o", "/", "A", "M", "R", "-", "W", "B">>>>,
          <<<<".", "A", "W", "B">>, <<"a", "u", "d", "i", "o", "/", "A", "M", "R", "-", "W", "B">>>>,
          <<<<".", "a", "x", "a">>, <<"a", "u", "d", "i", "o", "/", "a", "n", "n", "o", "d", "e", "x">>>>,
          <<<<".", "a", "c", "n">>, <<"a", "u", "d", "i", "o", "/", "a", "s", "c">>>>,
          <<<<".", "a", "a", "l">>, <<"a", "u", "d", "i", "o", "/", "A", "T", "R", "A", "C", "-", "A", "D", "V", "A", "N", "C", "E", "D", "-", "L", "O", "S", "S", "L", "E", "S", "S">>>>,
          <<<<".", "a", "t", "x">>, <<"a", "u", "d", "i", "o", "/", "A", "T", "R", "A", "C", "-", "X">>>>,
          <<<<".", "a", "t", "3">>, <<"a", "u", "d", "i", "o", "/", "A", "T", "R", "A", "C", "3">>>>,
          <<<<".", "a", "a", "3">>, <<"a", "u", "d", "i", "o", "/", "A", "T", "R", "A", "C", "3">>>>,
          <<<<".", "o", "m", "g">>, <<"a", "u", "d", "i", "o", "/", "A", "T", "R", "A", "C", "3">>>>,
          <<<<".", "c", "s", "d">>, <<"a", "u", "d", "i", "o", "/", "c", "s", "o", "u", "n", "d">>>>,
          <<<<".", "o", "r", "c">>, <<"a", "u", "d", "i", "o", "/", "c", "s", "o", "u", "n", "d">>>>,
          <<<<".", "s", "c", "o">>, <<"a", "u", "d", "i", "o", "/", "c", "s", "o", "u", "n", "d">>>>,
          <<<<".", "d", "l", "s">>, <<"a", "u", "d", "i", "o", "/", "d", "l", "s">>>>,
          <<<<".", "e", "v", "c">>, <<"a", "u", "d", "i", "o", "/", "E", "V", "R", "C">>>>,
          <<<<".", "q", "c", "p">>, <<"a", "u", "d", "i", "o", "/", "E", "V", "R", "C", "-", "Q", "C", "P">>>>,
          <<<<".", "Q", "C", "P">>, <<"a", "u", "d", "i", "o", "/", "E", "V", "R", "C", "-", "Q", "C", "P">>>>,
          <<<<".", "e", "v", "b">>, <<"a", "u", "d", "i", "o", "/", "E", "V", "R", "C", "B">>>>,
          <<<<".", "e", "n", "w">>, <<"a", "u", "d", "i", "o", "/", "E", "V", "R", "C", "N", "W">>>>,
          <<<<".", "e", "v", "w">>, <<"a", "u", "d", "i", "o", "/", "E", "V", "R", "C", "W", "B">>>>,
          <<<<".", "f", "l", "a", "c">>, <<"a", "u", "d", "i", "o", "/", "f", "l", "a", "c">>>>,
          <<<<".", "l", "b", "c">>, <<"a", "u", "d", "i", "o", "/", "i", "L", "B", "C">>>>,
          <<<<".", "l", "1", "6">>, <<"a", "u", "d", "i", "o", "/", "L", "1", "6">>>>,
          <<<<".", "m", "h", "a", "s">>, <<"a", "u", "d", "i", "o", "/", "m", "h", "a", "s">>>>,
          <<<<".", "m", "x", "m", "f">>, <<"a", "u", "d", "i", "o", "/", "m", "o", "b", "i", "l", "e", "-", "x", "m", "f">>>>,
          <<<<".", "m", "4", "a">>, <<"a", "u", "d", "i", "o", "/", "m", "p", "4">>>>,
          <<<<".", "m", "p", "g", "a">>, <<"a", "u", "d", "i", "o", "/", "m", "p", "e", "g">>>>,
          <<<<".", "m", "p", "e", "g", "a">>, <<"a", "u", "d", "i", "o", "/", "m", "p", "e", "g">>>>,
          <<<<".", "m", "p", "1">>, <<"a", "u", "d", "i", "o", "/", "m", "p", "e", "g">>>>,
          <<<<".", "o", "g", "a">>, <<"a", "u", "d", "i", "o", "/", "o", "g", "g">>>>,
          <<<<".", "o", "g", "g">>, <<"a", "u", "d", "i", "o", "/", "o", "g", "g">>>>,
          <<<<".", "s", "p", "x">>, <<"a", "u", "d", "i", "o", "/", "o", "g", "g">>>>,
          <<<<".", "s", "i", "d">>, <<"a", "u", "d", "i", "o", "/", "p", "r", "s", ".", "s", "i", "d">>>>,
          <<<<".", "p", "s", "i", "d">>, <<"a", "u", "d", "i", "o", "/", "p", "r", "s", ".", "s", "i", "d">>>>,
          <<<<".", "s", "m", "v">>, <<"a", "u", "d", "i", "o", "/", "S", "M", "V">>>>,
          <<<<".", "s", "o", "f", "a">>, <<"a", "u", "d", "i", "o", "/", "s", "o", "f", "a">>>>,
          <<<<".", "m", "i", "d">>, <<"a", "u", "d", "i", "o", "/", "s", "p", "-", "m", "i", "d", "i">>>>,
          <<<<".", "x", "h", "e">>, <<"a", "u", "d", "i", "o", "/", "u", "s", "a", "c">>>>,
          <<<<".", "k", "o", "z">>, <<"a", "u", "d", "i", "o", "/", "v", "n", "d", ".", "a", "u", "d", "i", "o", "k", "o", "z">>>>,
          <<<<".", "u", "v", "a">>, <<"a", "u", "d", "i", "o", "/", "v", "n", "d", ".", "d", "e", "c", "e", ".", "a", "u", "d", "i", "o">>>>,
          <<<<".", "u", "v", "v", "a">>, <<"a", "u", "d", "i", "o", "/", "v", "n", "d", ".", "d", "e", "c", "e", ".", "a", "u", "d", "i", "o">>>>,
          <<<<".", "e", "o", "l">>, <<"a", "u", "d", "i", "o", "/", "v", "n", "d", ".", "d", "i", "g", "i", "t", "a", "l", "-", "w", "i", "n", "d", "s">>>>,
          <<<<".", "m", "l", "p">>, <<"a", "u", "d", "i", "o", "/", "v", "n", "d", ".", "d", "o", "l", "b", "y", ".", "m", "l", "p">>>>,
          <<<<".", "d", "t", "s">>, <<"a", "u", "d", "i", "o", "/", "v", "n", "d", ".", "d", "t", "s">>>>,
          <<<<".", "d", "t", "s", "h", "d">>, <<"a", "u", "d", "i", "o", "/", "v", "n", "d", ".", "d", "t", "s", ".", "h", "d">>>>,
          <<<<".", "p", "l", "j">>, <<"a", "u", "d", "i", "o", "/", "v", "n", "d", ".", "e", "v", "e", "r", "a", "d", ".", "p", "l", "j">>>>,
          <<<<".", "l", "v", "p">>, <<"a", "u", "d", "i", "o", "/", "v", "n", "d", ".", "l", "u", "c", "e", "n", "t", ".", "v", "o", "i", "c", "e">>>>,
          <<<<".", "p", "y", "a">>, <<"a", "u", "d", "i", "o", "/", "v", "n", "d", ".", "m", "s", "-", "p", "l", "a", "y", "r", "e", "a", "d", "y", ".", "m", "e", "d", "i", "a", ".", "p", "y", "a">>>>,
          <<<<".", "v", "b", "k">>, <<"a", "u", "d", "i", "o", "/", "v", "n", "d", ".", "n", "o", "r", "t", "e", "l", ".", "v", "b", "k">>>>,
          <<<<".", "e", "c", "e", "l", "p", "4", "8", "0", "0">>, <<"a", "u", "d", "i", "o", "/", "v", "n", "d", ".", "n", "u", "e", "r", "a", ".", "e", "c", "e", "l", "p", "4", "8", "0", "0">>>>,
          <<<<".", "e", "c", "e", "l", "p", "7", "4", "7", "0">>, <<"a", "u", "d", "i", "o", "/", "v", "n", "d", ".", "n", "u", "e", "r", "a", ".", "e", "c", "e", "l", "p", "7", "4", "7", "0">>>>,
          <<<<".", "e", "c", "e", "l", "p", "9", "6", "0", "0">>, <<"a", "u", "d", "i", "o", "/", "v", "n", "d", ".", "n", "u", "e", "r", "a", ".", "e", "c", "e", "l", "p", "9", "6", "0", "0">>>>,
          <<<<".", "m", "u", "l", "t", "i", "t", "r", "a", "c", "k">>, <<"a", "u", "d", "i", "o", "/", "v", "n", "d", ".", "p", "r", "e", "s", "o", "n", "u", "s", ".", "m", "u", "l", "t", "i", "t", "r", "a", "c", "k">>>>,
          <<<<".", "r", "i", "p">>, <<"a", "u", "d", "i", "o", "/", "v", "n", "d", ".", "r", "i", "p">>>>,
          <<<<".", "s", "m", "p", "3">>, <<"a", "u", "d", "i", "o", "/", "v", "n", "d", ".", "s", "e", "a", "l", "e", "d", "m", "e", "d", "i", "a", ".", "s", "o", "f", "t", "s", "e", "a", "l", ".", "m", "p", "e", "g">>>>,
          <<<<".", "s", "m", "p">>, <<"a", "u", "d", "i", "o", "/", "v", "n", "d", ".", "s", "e", "a", "l", "e", "d", "m", "e", "d", "i", "a", ".", "s", "o", "f", "t", "s", "e", "a", "l", ".", "m", "p", "e", "g">>>>,
          <<<<".", "s", "1", "m">>, <<"a", "u", "d", "i", "o", "/", "v", "n", "d", ".", "s", "e", "a", "l", "e", "d", "m", "e", "d", "i", "a", ".", "s", "o", "f", "t", "s", "e", "a", "l", ".", "m", "p", "e", "g">>>>,
          <<<<".", "g", "s", "m">>, <<"m", "o", "d", "e", "l", "/", "v", "n", "d", ".", "g", "d", "l">>>>,
          <<<<".", "w", "a", "x">>, <<"a", "u", "d", "i", "o", "/", "x", "-", "m", "s", "-", "w", "a", "x">>>>,
          <<<<".", "w", "m", "a">>, <<"a", "u", "d", "i", "o", "/", "x", "-", "m", "s", "-", "w", "m", "a">>>>,
          <<<<".", "r", "m">>, <<"a", "u", "d", "i", "o", "/", "x", "-", "p", "n", "-", "r", "e", "a", "l", "a", "u", "d", "i", "o">>>>,
          <<<<".", "p", "l", "s">>, <<"a", "u", "d", "i", "o", "/", "x", "-", "s", "c", "p", "l", "s">>>>,
          <<<<".", "s", "d", "2">>, <<"a", "u", "d", "i", "o", "/", "x", "-", "s", "d", "2">>>>,
          <<<<".", "a", "l", "c">>, <<"c", "h", "e", "m", "i", "c", "a", "l", "/", "x", "-", "a", "l", "c", "h", "e", "m", "y">>>>,
          <<<<".", "c", "a", "c">>, <<"c", "h", "e", "m", "i", "c", "a", "l", "/", "x", "-", "c", "a", "c", "h", "e">>>>,
          <<<<".", "c", "a", "c", "h", "e">>, <<"c", "h", "e", "m", "i", "c", "a", "l", "/", "x", "-", "c", "a", "c", "h", "e">>>>,
          <<<<".", "c", "s", "f">>, <<"c", "h", "e", "m", "i", "c", "a", "l", "/", "x", "-", "c", "a", "c", "h", "e", "-", "c", "s", "f">>>>,
          <<<<".", "c", "b", "i", "n">>, <<"c", "h", "e", "m", "i", "c", "a", "l", "/", "x", "-", "c", "a", "c", "t", "v", "s", "-", "b", "i", "n", "a", "r", "y">>>>,
          <<<<".", "c", "a", "s", "c", "i", "i">>, <<"c", "h", "e", "m", "i", "c", "a", "l", "/", "x", "-", "c", "a", "c", "t", "v", "s", "-", "b", "i", "n", "a", "r", "y">>>>,
          <<<<".", "c", "t", "a", "b">>, <<"c", "h", "e", "m", "i", "c", "a", "l", "/", "x", "-", "c", "a", "c", "t", "v", "s", "-", "b", "i", "n", "a", "r", "y">>>>,
          <<<<".", "c", "d", "x">>, <<"c", "h", "e", "m", "i", "c", "a", "l", "/", "x", "-", "c", "d", "x">>>>,
          <<<<".", "c", "3", "d">>, <<"c", "h", "e", "m", "i", "c", "a", "l", "/", "x", "-", "c", "h", "e", "m", "3", "d">>>>,
          <<<<".", "c", "m", "d", "f">>, <<"c", "h", "e", "m", "i", "c", "a", "l", "/", "x", "-", "c", "m", "d", "f">>>>,
          <<<<".", "c", "p", "a">>, <<"c", "h", "e", "m", "i", "c", "a", "l", "/", "x", "-", "c", "o", "m", "p", "a", "s", "s">>>>,
          <<<<".", "b", "s", "d">>, <<"c", "h", "e", "m", "i", "c", "a", "l", "/", "x", "-", "c", "r", "o", "s", "s", "f", "i", "r", "e">>>>,
          <<<<".", "c", "s", "m", "l">>, <<"c", "h", "e", "m", "i", "c", "a", "l", "/", "x", "-", "c", "s", "m", "l">>>>,
          <<<<".", "c", "s", "m">>, <<"c", "h", "e", "m", "i", "c", "a", "l", "/", "x", "-", "c", "s", "m", "l">>>>,
          <<<<".", "c", "t", "x">>, <<"c", "h", "e", "m", "i", "c", "a", "l", "/", "x", "-", "c", "t", "x">>>>,
          <<<<".", "c", "x", "f">>, <<"c", "h", "e", "m", "i", "c", "a", "l", "/", "x", "-", "c", "x", "f">>>>,
          <<<<".", "c", "e", "f">>, <<"c", "h", "e", "m", "i", "c", "a", "l", "/", "x", "-", "c", "x", "f">>>>,
          <<<<".", "e", "m", "b">>, <<"c", "h", "e", "m", "i", "c", "a", "l", "/", "x", "-", "e", "m", "b", "l", "-", "d", "l", "-", "n", "u", "c", "l", "e", "o", "t", "i", "d", "e">>>>,
          <<<<".", "e", "m", "b", "l">>, <<"c", "h", "e", "m", "i", "c", "a", "l", "/", "x", "-", "e", "m", "b", "l", "-", "d", "l", "-", "n", "u", "c", "l", "e", "o", "t", "i", "d", "e">>>>,
          <<<<".", "s", "p", "c">>, <<"c", "h", "e", "m", "i", "c", "a", "l", "/", "x", "-", "g", "a", "l", "a", "c", "t", "i", "c", "-", "s", "p", "c">>>>,
          <<<<".", "i", "n", "p">>, <<"c", "h", "e", "m", "i", "c", "a", "l", "/", "x", "-", "g", "a", "m", "e", "s", "s", "-", "i", "n", "p", "u", "t">>>>,
          <<<<".", "g", "a", "m">>, <<"c", "h", "e", "m", "i", "c", "a", "l", "/", "x", "-", "g", "a", "m", "e", "s", "s", "-", "i", "n", "p", "u", "t">>>>,
          <<<<".", "g", "a", "m", "i", "n">>, <<"c", "h", "e", "m", "i", "c", "a", "l", "/", "x", "-", "g", "a", "m", "e", "s", "s", "-", "i", "n", "p", "u", "t">>>>,
          <<<<".", "f", "c", "h">>, <<"c", "h", "e", "m", "i", "c", "a", "l", "/", "x", "-", "g", "a", "u", "s", "s", "i", "a", "n", "-", "c", "h", "e", "c", "k", "p", "o", "i", "n", "t">>>>,
          <<<<".", "f", "c", "h", "k">>, <<"c", "h", "e", "m", "i", "c", "a", "l", "/", "x", "-", "g", "a", "u", "s", "s", "i", "a", "n", "-", "c", "h", "e", "c", "k", "p", "o", "i", "n", "t">>>>,
          <<<<".", "c", "u", "b">>, <<"c", "h", "e", "m", "i", "c", "a", "l", "/", "x", "-", "g", "a", "u", "s", "s", "i", "a", "n", "-", "c", "u", "b", "e">>>>,
          <<<<".", "g", "a", "u">>, <<"c", "h", "e", "m", "i", "c", "a", "l", "/", "x", "-", "g", "a", "u", "s", "s", "i", "a", "n", "-", "i", "n", "p", "u", "t">>>>,
          <<<<".", "g", "j", "c">>, <<"c", "h", "e", "m", "i", "c", "a", "l", "/", "x", "-", "g", "a", "u", "s", "s", "i", "a", "n", "-", "i", "n", "p", "u", "t">>>>,
          <<<<".", "g", "j", "f">>, <<"c", "h", "e", "m", "i", "c", "a", "l", "/", "x", "-", "g", "a", "u", "s", "s", "i", "a", "n", "-", "i", "n", "p", "u", "t">>>>,
          <<<<".", "g", "a", "l">>, <<"c", "h", "e", "m", "i", "c", "a", "l", "/", "x", "-", "g", "a", "u", "s", "s", "i", "a", "n", "-", "l", "o", "g">>>>,
          <<<<".", "g", "c", "g">>, <<"c", "h", "e", "m", "i", "c", "a", "l", "/", "x", "-", "g", "c", "g", "8", "-", "s", "e", "q", "u", "e", "n", "c", "e">>>>,
          <<<<".", "g", "e", "n">>, <<"c", "h", "e", "m", "i", "c", "a", "l", "/", "x", "-", "g", "e", "n", "b", "a", "n", "k">>>>,
          <<<<".", "h", "i", "n">>, <<"c", "h", "e", "m", "i", "c", "a", "l", "/", "x", "-", "h", "i", "n">>>>,
          <<<<".", "i", "s", "t", "r">>, <<"c", "h", "e", "m", "i", "c", "a", "l", "/", "x", "-", "i", "s", "o", "s", "t", "a", "r">>>>,
          <<<<".", "i", "s", "t">>, <<"c", "h", "e", "m", "i", "c", "a", "l", "/", "x", "-", "i", "s", "o", "s", "t", "a", "r">>>>,
          <<<<".", "j", "d", "x">>, <<"c", "h", "e", "m", "i", "c", "a", "l", "/", "x", "-", "j", "c", "a", "m", "p", "-", "d", "x">>>>,
          <<<<".", "d", "x">>, <<"c", "h", "e", "m", "i", "c", "a", "l", "/", "x", "-", "j", "c", "a", "m", "p", "-", "d", "x">>>>,
          <<<<".", "k", "i", "n">>, <<"c", "h", "e", "m", "i", "c", "a", "l", "/", "x", "-", "k", "i", "n", "e", "m", "a", "g", "e">>>>,
          <<<<".", "m", "c", "m">>, <<"c", "h", "e", "m", "i", "c", "a", "l", "/", "x", "-", "m", "a", "c", "m", "o", "l", "e", "c", "u", "l", "e">>>>,
          <<<<".", "m", "m", "o", "d">>, <<"c", "h", "e", "m", "i", "c", "a", "l", "/", "x", "-", "m", "a", "c", "r", "o", "m", "o", "d", "e", "l", "-", "i", "n", "p", "u", "t">>>>,
          <<<<".", "m", "o", "l">>, <<"c", "h", "e", "m", "i", "c", "a", "l", "/", "x", "-", "m", "d", "l", "-", "m", "o", "l", "f", "i", "l", "e">>>>,
          <<<<".", "r", "d">>, <<"c", "h", "e", "m", "i", "c", "a", "l", "/", "x", "-", "m", "d", "l", "-", "r", "d", "f", "i", "l", "e">>>>,
          <<<<".", "r", "x", "n">>, <<"c", "h", "e", "m", "i", "c", "a", "l", "/", "x", "-", "m", "d", "l", "-", "r", "x", "n", "f", "i", "l", "e">>>>,
          <<<<".", "s", "d">>, <<"c", "h", "e", "m", "i", "c", "a", "l", "/", "x", "-", "m", "d", "l", "-", "s", "d", "f", "i", "l", "e">>>>,
          <<<<".", "t", "g", "f">>, <<"c", "h", "e", "m", "i", "c", "a", "l", "/", "x", "-", "m", "d", "l", "-", "t", "g", "f">>>>,
          <<<<".", "m", "c", "i", "f">>, <<"c", "h", "e", "m", "i", "c", "a", "l", "/", "x", "-", "m", "m", "c", "i", "f">>>>,
          <<<<".", "b">>, <<"c", "h", "e", "m", "i", "c", "a", "l", "/", "x", "-", "m", "o", "l", "c", "o", "n", "n", "-", "Z">>>>,
          <<<<".", "g", "p", "t">>, <<"c", "h", "e", "m", "i", "c", "a", "l", "/", "x", "-", "m", "o", "p", "a", "c", "-", "g", "r", "a", "p", "h">>>>,
          <<<<".", "m", "o", "p">>, <<"c", "h", "e", "m", "i", "c", "a", "l", "/", "x", "-", "m", "o", "p", "a", "c", "-", "i", "n", "p", "u", "t">>>>,
          <<<<".", "m", "o", "p", "c", "r", "t">>, <<"c", "h", "e", "m", "i", "c", "a", "l", "/", "x", "-", "m", "o", "p", "a", "c", "-", "i", "n", "p", "u", "t">>>>,
          <<<<".", "z", "m", "t">>, <<"c", "h", "e", "m", "i", "c", "a", "l", "/", "x", "-", "m", "o", "p", "a", "c", "-", "i", "n", "p", "u", "t">>>>,
          <<<<".", "m", "o", "o">>, <<"c", "h", "e", "m", "i", "c", "a", "l", "/", "x", "-", "m", "o", "p", "a", "c", "-", "o", "u", "t">>>>,
          <<<<".", "m", "v", "b">>, <<"c", "h", "e", "m", "i", "c", "a", "l", "/", "x", "-", "m", "o", "p", "a", "c", "-", "v", "i", "b">>>>,
          <<<<".", "a", "s", "n">>, <<"c", "h", "e", "m", "i", "c", "a", "l", "/", "x", "-", "n", "c", "b", "i", "-", "a", "s", "n", "1", "-", "s", "p", "e", "c">>>>,
          <<<<".", "p", "r", "t">>, <<"c", "h", "e", "m", "i", "c", "a", "l", "/", "x", "-", "n", "c", "b", "i", "-", "a", "s", "n", "1", "-", "a", "s", "c", "i", "i">>>>,
          <<<<".", "v", "a", "l">>, <<"c", "h", "e", "m", "i", "c", "a", "l", "/", "x", "-", "n", "c", "b", "i", "-", "a", "s", "n", "1", "-", "b", "i", "n", "a", "r", "y">>>>,
          <<<<".", "r", "o", "s">>, <<"c", "h", "e", "m", "i", "c", "a", "l", "/", "x", "-", "r", "o", "s", "d", "a", "l">>>>,
          <<<<".", "s", "w">>, <<"c", "h", "e", "m", "i", "c", "a", "l", "/", "x", "-", "s", "w", "i", "s", "s", "p", "r", "o", "t">>>>,
          <<<<".", "v", "m", "s">>, <<"c", "h", "e", "m", "i", "c", "a", "l", "/", "x", "-", "v", "a", "m", "a", "s", "-", "i", "s", "o", "1", "4", "9", "7", "6">>>>,
          <<<<".", "v", "m", "d">>, <<"c", "h", "e", "m", "i", "c", "a", "l", "/", "x", "-", "v", "m", "d">>>>,
          <<<<".", "x", "t", "e", "l">>, <<"c", "h", "e", "m", "i", "c", "a", "l", "/", "x", "-", "x", "t", "e", "l">>>>,
          <<<<".", "x", "y", "z">>, <<"c", "h", "e", "m", "i", "c", "a", "l", "/", "x", "-", "x", "y", "z">>>>,
          <<<<".", "t", "t", "c">>, <<"f", "o", "n", "t", "/", "c", "o", "l", "l", "e", "c", "t", "i", "o", "n">>>>,
          <<<<".", "o", "t", "f">>, <<"f", "o", "n", "t", "/", "o", "t", "f">>>>,
          <<<<".", "t", "t", "f">>, <<"f", "o", "n", "t", "/", "t", "t", "f">>>>,
          <<<<".", "w", "o", "f", "f">>, <<"f", "o", "n", "t", "/", "w", "o", "f", "f">>>>,
          <<<<".", "w", "o", "f", "f", "2">>, <<"f", "o", "n", "t", "/", "w", "o", "f", "f", "2">>>>,
          <<<<".", "e", "x", "r">>, <<"i", "m", "a", "g", "e", "/", "a", "c", "e", "s">>>>,
          <<<<".", "a", "p", "n", "g">>, <<"i", "m", "a", "g", "e", "/", "a", "p", "n", "g">>>>,
          <<<<".", "a", "v", "c", "i">>, <<"i", "m", "a", "g", "e", "/", "a", "v", "c", "i">>>>,
          <<<<".", "a", "v", "c", "s">>, <<"i", "m", "a", "g", "e", "/", "a", "v", "c", "s">>>>,
          <<<<".", "h", "i", "f">>, <<"i", "m", "a", "g", "e", "/", "a", "v", "i", "f">>>>,
          <<<<".", "c", "g", "m">>, <<"i", "m", "a", "g", "e", "/", "c", "g", "m">>>>,
          <<<<".", "d", "r", "l", "e">>, <<"i", "m", "a", "g", "e", "/", "d", "i", "c", "o", "m", "-", "r", "l", "e">>>>,
          <<<<".", "d", "p", "x">>, <<"i", "m", "a", "g", "e", "/", "d", "p", "x">>>>,
          <<<<".", "e", "m", "f">>, <<"i", "m", "a", "g", "e", "/", "e", "m", "f">>>>,
          <<<<".", "f", "i", "t", "s">>, <<"i", "m", "a", "g", "e", "/", "f", "i", "t", "s">>>>,
          <<<<".", "f", "i", "t">>, <<"i", "m", "a", "g", "e", "/", "f", "i", "t", "s">>>>,
          <<<<".", "f", "t", "s">>, <<"i", "m", "a", "g", "e", "/", "f", "i", "t", "s">>>>,
          <<<<".", "h", "e", "i", "c", "s">>, <<"i", "m", "a", "g", "e", "/", "h", "e", "i", "c", "-", "s", "e", "q", "u", "e", "n", "c", "e">>>>,
          <<<<".", "h", "e", "i", "f", "s">>, <<"i", "m", "a", "g", "e", "/", "h", "e", "i", "f", "-", "s", "e", "q", "u", "e", "n", "c", "e">>>>,
          <<<<".", "h", "e", "j", "2">>, <<"i", "m", "a", "g", "e", "/", "h", "e", "j", "2", "k">>>>,
          <<<<".", "h", "s", "j", "2">>, <<"i", "m", "a", "g", "e", "/", "h", "s", "j", "2">>>>,
          <<<<".", "j", "l", "s">>, <<"i", "m", "a", "g", "e", "/", "j", "l", "s">>>>,
          <<<<".", "j", "p", "2">>, <<"i", "m", "a", "g", "e", "/", "j", "p", "2">>>>,
          <<<<".", "j", "p", "g", "2">>, <<"i", "m", "a", "g", "e", "/", "j", "p", "2">>>>,
          <<<<".", "j", "f", "i", "f">>, <<"i", "m", "a", "g", "e", "/", "j", "p", "e", "g">>>>,
          <<<<".", "j", "p", "h">>, <<"i", "m", "a", "g", "e", "/", "j", "p", "h">>>>,
          <<<<".", "j", "h", "c">>, <<"i", "m", "a", "g", "e", "/", "j", "p", "h", "c">>>>,
          <<<<".", "j", "p", "h", "c">>, <<"i", "m", "a", "g", "e", "/", "j", "p", "h", "c">>>>,
          <<<<".", "j", "p", "m">>, <<"i", "m", "a", "g", "e", "/", "j", "p", "m">>>>,
          <<<<".", "j", "p", "g", "m">>, <<"i", "m", "a", "g", "e", "/", "j", "p", "m">>>>,
          <<<<".", "j", "p", "x">>, <<"i", "m", "a", "g", "e", "/", "j", "p", "x">>>>,
          <<<<".", "j", "p", "f">>, <<"i", "m", "a", "g", "e", "/", "j", "p", "x">>>>,
          <<<<".", "j", "x", "l">>, <<"i", "m", "a", "g", "e", "/", "j", "x", "l">>>>,
          <<<<".", "j", "x", "r">>, <<"i", "m", "a", "g", "e", "/", "j", "x", "r">>>>,
          <<<<".", "j", "x", "r", "a">>, <<"i", "m", "a", "g", "e", "/", "j", "x", "r", "A">>>>,
          <<<<".", "j", "x", "r", "s">>, <<"i", "m", "a", "g", "e", "/", "j", "x", "r", "S">>>>,
          <<<<".", "j", "x", "s">>, <<"i", "m", "a", "g", "e", "/", "j", "x", "s">>>>,
          <<<<".", "j", "x", "s", "c">>, <<"i", "m", "a", "g", "e", "/", "j", "x", "s", "c">>>>,
          <<<<".", "j", "x", "s", "i">>, <<"i", "m", "a", "g", "e", "/", "j", "x", "s", "i">>>>,
          <<<<".", "j", "x", "s", "s">>, <<"i", "m", "a", "g", "e", "/", "j", "x", "s", "s">>>>,
          <<<<".", "k", "t", "x">>, <<"i", "m", "a", "g", "e", "/", "k", "t", "x">>>>,
          <<<<".", "k", "t", "x", "2">>, <<"i", "m", "a", "g", "e", "/", "k", "t", "x", "2">>>>,
          <<<<".", "b", "t", "i", "f">>, <<"i", "m", "a", "g", "e", "/", "p", "r", "s", ".", "b", "t", "i", "f">>>>,
          <<<<".", "b", "t", "f">>, <<"i", "m", "a", "g", "e", "/", "p", "r", "s", ".", "b", "t", "i", "f">>>>,
          <<<<".", "p", "t", "i">>, <<"i", "m", "a", "g", "e", "/", "p", "r", "s", ".", "p", "t", "i">>>>,
          <<<<".", "s", "v", "g", "z">>, <<"i", "m", "a", "g", "e", "/", "s", "v", "g", "+", "x", "m", "l">>>>,
          <<<<".", "t", "f", "x">>, <<"i", "m", "a", "g", "e", "/", "t", "i", "f", "f", "-", "f", "x">>>>,
          <<<<".", "p", "s", "d">>, <<"i", "m", "a", "g", "e", "/", "v", "n", "d", ".", "a", "d", "o", "b", "e", ".", "p", "h", "o", "t", "o", "s", "h", "o", "p">>>>,
          <<<<".", "a", "z", "v">>, <<"i", "m", "a", "g", "e", "/", "v", "n", "d", ".", "a", "i", "r", "z", "i", "p", ".", "a", "c", "c", "e", "l", "e", "r", "a", "t", "o", "r", ".", "a", "z", "v">>>>,
          <<<<".", "u", "v", "i">>, <<"i", "m", "a", "g", "e", "/", "v", "n", "d", ".", "d", "e", "c", "e", ".", "g", "r", "a", "p", "h", "i", "c">>>>,
          <<<<".", "u", "v", "v", "i">>, <<"i", "m", "a", "g", "e", "/", "v", "n", "d", ".", "d", "e", "c", "e", ".", "g", "r", "a", "p", "h", "i", "c">>>>,
          <<<<".", "u", "v", "g">>, <<"i", "m", "a", "g", "e", "/", "v", "n", "d", ".", "d", "e", "c", "e", ".", "g", "r", "a", "p", "h", "i", "c">>>>,
          <<<<".", "u", "v", "v", "g">>, <<"i", "m", "a", "g", "e", "/", "v", "n", "d", ".", "d", "e", "c", "e", ".", "g", "r", "a", "p", "h", "i", "c">>>>,
          <<<<".", "d", "j", "v", "u">>, <<"i", "m", "a", "g", "e", "/", "v", "n", "d", ".", "d", "j", "v", "u">>>>,
          <<<<".", "d", "j", "v">>, <<"i", "m", "a", "g", "e", "/", "v", "n", "d", ".", "d", "j", "v", "u">>>>,
          <<<<".", "d", "w", "g">>, <<"i", "m", "a", "g", "e", "/", "v", "n", "d", ".", "d", "w", "g">>>>,
          <<<<".", "d", "x", "f">>, <<"i", "m", "a", "g", "e", "/", "v", "n", "d", ".", "d", "x", "f">>>>,
          <<<<".", "f", "b", "s">>, <<"i", "m", "a", "g", "e", "/", "v", "n", "d", ".", "f", "a", "s", "t", "b", "i", "d", "s", "h", "e", "e", "t">>>>,
          <<<<".", "f", "p", "x">>, <<"i", "m", "a", "g", "e", "/", "v", "n", "d", ".", "f", "p", "x">>>>,
          <<<<".", "f", "s", "t">>, <<"i", "m", "a", "g", "e", "/", "v", "n", "d", ".", "f", "s", "t">>>>,
          <<<<".", "m", "m", "r">>, <<"i", "m", "a", "g", "e", "/", "v", "n", "d", ".", "f", "u", "j", "i", "x", "e", "r", "o", "x", ".", "e", "d", "m", "i", "c", "s", "-", "m", "m", "r">>>>,
          <<<<".", "r", "l", "c">>, <<"i", "m", "a", "g", "e", "/", "v", "n", "d", ".", "f", "u", "j", "i", "x", "e", "r", "o", "x", ".", "e", "d", "m", "i", "c", "s", "-", "r", "l", "c">>>>,
          <<<<".", "P", "G", "B">>, <<"i", "m", "a", "g", "e", "/", "v", "n", "d", ".", "g", "l", "o", "b", "a", "l", "g", "r", "a", "p", "h", "i", "c", "s", ".", "p", "g", "b">>>>,
          <<<<".", "p", "g", "b">>, <<"i", "m", "a", "g", "e", "/", "v", "n", "d", ".", "g", "l", "o", "b", "a", "l", "g", "r", "a", "p", "h", "i", "c", "s", ".", "p", "g", "b">>>>,
          <<<<".", "m", "d", "i">>, <<"i", "m", "a", "g", "e", "/", "v", "n", "d", ".", "m", "s", "-", "m", "o", "d", "i">>>>,
          <<<<".", "b", "1", "6">>, <<"i", "m", "a", "g", "e", "/", "v", "n", "d", ".", "p", "c", "o", ".", "b", "1", "6">>>>,
          <<<<".", "h", "d", "r">>, <<"i", "m", "a", "g", "e", "/", "v", "n", "d", ".", "r", "a", "d", "i", "a", "n", "c", "e">>>>,
          <<<<".", "r", "g", "b", "e">>, <<"i", "m", "a", "g", "e", "/", "v", "n", "d", ".", "r", "a", "d", "i", "a", "n", "c", "e">>>>,
          <<<<".", "x", "y", "z", "e">>, <<"i", "m", "a", "g", "e", "/", "v", "n", "d", ".", "r", "a", "d", "i", "a", "n", "c", "e">>>>,
          <<<<".", "s", "p", "n", "g">>, <<"i", "m", "a", "g", "e", "/", "v", "n", "d", ".", "s", "e", "a", "l", "e", "d", ".", "p", "n", "g">>>>,
          <<<<".", "s", "p", "n">>, <<"i", "m", "a", "g", "e", "/", "v", "n", "d", ".", "s", "e", "a", "l", "e", "d", ".", "p", "n", "g">>>>,
          <<<<".", "s", "1", "n">>, <<"i", "m", "a", "g", "e", "/", "v", "n", "d", ".", "s", "e", "a", "l", "e", "d", ".", "p", "n", "g">>>>,
          <<<<".", "s", "g", "i", "f">>, <<"i", "m", "a", "g", "e", "/", "v", "n", "d", ".", "s", "e", "a", "l", "e", "d", "m", "e", "d", "i", "a", ".", "s", "o", "f", "t", "s", "e", "a", "l", ".", "g", "i", "f">>>>,
          <<<<".", "s", "g", "i">>, <<"i", "m", "a", "g", "e", "/", "v", "n", "d", ".", "s", "e", "a", "l", "e", "d", "m", "e", "d", "i", "a", ".", "s", "o", "f", "t", "s", "e", "a", "l", ".", "g", "i", "f">>>>,
          <<<<".", "s", "1", "g">>, <<"i", "m", "a", "g", "e", "/", "v", "n", "d", ".", "s", "e", "a", "l", "e", "d", "m", "e", "d", "i", "a", ".", "s", "o", "f", "t", "s", "e", "a", "l", ".", "g", "i", "f">>>>,
          <<<<".", "s", "j", "p", "g">>, <<"i", "m", "a", "g", "e", "/", "v", "n", "d", ".", "s", "e", "a", "l", "e", "d", "m", "e", "d", "i", "a", ".", "s", "o", "f", "t", "s", "e", "a", "l", ".", "j", "p", "g">>>>,
          <<<<".", "s", "j", "p">>, <<"i", "m", "a", "g", "e", "/", "v", "n", "d", ".", "s", "e", "a", "l", "e", "d", "m", "e", "d", "i", "a", ".", "s", "o", "f", "t", "s", "e", "a", "l", ".", "j", "p", "g">>>>,
          <<<<".", "s", "1", "j">>, <<"i", "m", "a", "g", "e", "/", "v", "n", "d", ".", "s", "e", "a", "l", "e", "d", "m", "e", "d", "i", "a", ".", "s", "o", "f", "t", "s", "e", "a", "l", ".", "j", "p", "g">>>>,
          <<<<".", "t", "a", "p">>, <<"i", "m", "a", "g", "e", "/", "v", "n", "d", ".", "t", "e", "n", "c", "e", "n", "t", ".", "t", "a", "p">>>>,
          <<<<".", "v", "t", "f">>, <<"i", "m", "a", "g", "e", "/", "v", "n", "d", ".", "v", "a", "l", "v", "e", ".", "s", "o", "u", "r", "c", "e", ".", "t", "e", "x", "t", "u", "r", "e">>>>,
          <<<<".", "w", "b", "m", "p">>, <<"i", "m", "a", "g", "e", "/", "v", "n", "d", ".", "w", "a", "p", ".", "w", "b", "m", "p">>>>,
          <<<<".", "x", "i", "f">>, <<"i", "m", "a", "g", "e", "/", "v", "n", "d", ".", "x", "i", "f", "f">>>>,
          <<<<".", "p", "c", "x">>, <<"i", "m", "a", "g", "e", "/", "v", "n", "d", ".", "z", "b", "r", "u", "s", "h", ".", "p", "c", "x">>>>,
          <<<<".", "w", "e", "b", "p">>, <<"i", "m", "a", "g", "e", "/", "w", "e", "b", "p">>>>,
          <<<<".", "w", "m", "f">>, <<"i", "m", "a", "g", "e", "/", "w", "m", "f">>>>,
          <<<<".", "c", "r", "2">>, <<"i", "m", "a", "g", "e", "/", "x", "-", "c", "a", "n", "o", "n", "-", "c", "r", "2">>>>,
          <<<<".", "c", "r", "w">>, <<"i", "m", "a", "g", "e", "/", "x", "-", "c", "a", "n", "o", "n", "-", "c", "r", "w">>>>,
          <<<<".", "c", "d", "r">>, <<"i", "m", "a", "g", "e", "/", "x", "-", "c", "o", "r", "e", "l", "d", "r", "a", "w">>>>,
          <<<<".", "p", "a", "t">>, <<"i", "m", "a", "g", "e", "/", "x", "-", "c", "o", "r", "e", "l", "d", "r", "a", "w", "p", "a", "t", "t", "e", "r", "n">>>>,
          <<<<".", "c", "d", "t">>, <<"i", "m", "a", "g", "e", "/", "x", "-", "c", "o", "r", "e", "l", "d", "r", "a", "w", "t", "e", "m", "p", "l", "a", "t", "e">>>>,
          <<<<".", "e", "r", "f">>, <<"i", "m", "a", "g", "e", "/", "x", "-", "e", "p", "s", "o", "n", "-", "e", "r", "f">>>>,
          <<<<".", "a", "r", "t">>, <<"m", "e", "s", "s", "a", "g", "e", "/", "r", "f", "c", "8", "2", "2">>>>,
          <<<<".", "j", "n", "g">>, <<"i", "m", "a", "g", "e", "/", "x", "-", "j", "n", "g">>>>,
          <<<<".", "n", "e", "f">>, <<"i", "m", "a", "g", "e", "/", "x", "-", "n", "i", "k", "o", "n", "-", "n", "e", "f">>>>,
          <<<<".", "o", "r", "f">>, <<"i", "m", "a", "g", "e", "/", "x", "-", "o", "l", "y", "m", "p", "u", "s", "-", "o", "r", "f">>>>,
          <<<<".", "x", "c", "f">>, <<"i", "m", "a", "g", "e", "/", "x", "-", "x", "c", "f">>>>,
          <<<<".", "u", "8", "m", "s", "g">>, <<"m", "e", "s", "s", "a", "g", "e", "/", "g", "l", "o", "b", "a", "l">>>>,
          <<<<".", "u", "8", "d", "s", "n">>, <<"m", "e", "s", "s", "a", "g", "e", "/", "g", "l", "o", "b", "a", "l", "-", "d", "e", "l", "i", "v", "e", "r", "y", "-", "s", "t", "a", "t", "u", "s">>>>,
          <<<<".", "u", "8", "m", "d", "n">>, <<"m", "e", "s", "s", "a", "g", "e", "/", "g", "l", "o", "b", "a", "l", "-", "d", "i", "s", "p", "o", "s", "i", "t", "i", "o", "n", "-", "n", "o", "t", "i", "f", "i", "c", "a", "t", "i", "o", "n">>>>,
          <<<<".", "u", "8", "h", "d", "r">>, <<"m", "e", "s", "s", "a", "g", "e", "/", "g", "l", "o", "b", "a", "l", "-", "h", "e", "a", "d", "e", "r", "s">>>>,
          <<<<".", "m", "a", "i", "l">>, <<"m", "e", "s", "s", "a", "g", "e", "/", "r", "f", "c", "8", "2", "2">>>>,
          <<<<".", "g", "l", "t", "f">>, <<"m", "o", "d", "e", "l", "/", "g", "l", "t", "f", "+", "j", "s", "o", "n">>>>,
          <<<<".", "g", "l", "b">>, <<"m", "o", "d", "e", "l", "/", "g", "l", "t", "f", "-", "b", "i", "n", "a", "r", "y">>>>,
          <<<<".", "i", "g", "s">>, <<"m", "o", "d", "e", "l", "/", "i", "g", "e", "s">>>>,
          <<<<".", "i", "g", "e", "s">>, <<"m", "o", "d", "e", "l", "/", "i", "g", "e", "s">>>>,
          <<<<".", "j", "t">>, <<"m", "o", "d", "e", "l", "/", "J", "T">>>>,
          <<<<".", "m", "s", "h">>, <<"m", "o", "d", "e", "l", "/", "m", "e", "s", "h">>>>,
          <<<<".", "m", "e", "s", "h">>, <<"m", "o", "d", "e", "l", "/", "m", "e", "s", "h">>>>,
          <<<<".", "s", "i", "l", "o">>, <<"m", "o", "d", "e", "l", "/", "m", "e", "s", "h">>>>,
          <<<<".", "m", "t", "l">>, <<"m", "o", "d", "e", "l", "/", "m", "t", "l">>>>,
          <<<<".", "p", "r", "c">>, <<"m", "o", "d", "e", "l", "/", "p", "r", "c">>>>,
          <<<<".", "s", "t", "p">>, <<"m", "o", "d", "e", "l", "/", "s", "t", "e", "p">>>>,
          <<<<".", "s", "t", "e", "p">>, <<"m", "o", "d", "e", "l", "/", "s", "t", "e", "p">>>>,
          <<<<".", "s", "t", "p", "x">>, <<"m", "o", "d", "e", "l", "/", "s", "t", "e", "p", "+", "x", "m", "l">>>>,
          <<<<".", "s", "t", "p", "z">>, <<"m", "o", "d", "e", "l", "/", "s", "t", "e", "p", "+", "z", "i", "p">>>>,
          <<<<".", "s", "t", "p", "x", "z">>, <<"m", "o", "d", "e", "l", "/", "s", "t", "e", "p", "-", "x", "m", "l", "+", "z", "i", "p">>>>,
          <<<<".", "s", "t", "l">>, <<"m", "o", "d", "e", "l", "/", "s", "t", "l">>>>,
          <<<<".", "u", "3", "d">>, <<"m", "o", "d", "e", "l", "/", "u", "3", "d">>>>,
          <<<<".", "c", "l", "d">>, <<"m", "o", "d", "e", "l", "/", "v", "n", "d", ".", "c", "l", "d">>>>,
          <<<<".", "d", "a", "e">>, <<"m", "o", "d", "e", "l", "/", "v", "n", "d", ".", "c", "o", "l", "l", "a", "d", "a", "+", "x", "m", "l">>>>,
          <<<<".", "d", "w", "f">>, <<"m", "o", "d", "e", "l", "/", "v", "n", "d", ".", "d", "w", "f">>>>,
          <<<<".", "g", "d", "l">>, <<"m", "o", "d", "e", "l", "/", "v", "n", "d", ".", "g", "d", "l">>>>,
          <<<<".", "w", "i", "n">>, <<"m", "o", "d", "e", "l", "/", "v", "n", "d", ".", "g", "d", "l">>>>,
          <<<<".", "d", "o", "r">>, <<"m", "o", "d", "e", "l", "/", "v", "n", "d", ".", "g", "d", "l">>>>,
          <<<<".", "l", "m", "p">>, <<"m", "o", "d", "e", "l", "/", "v", "n", "d", ".", "g", "d", "l">>>>,
          <<<<".", "r", "s", "m">>, <<"m", "o", "d", "e", "l", "/", "v", "n", "d", ".", "g", "d", "l">>>>,
          <<<<".", "m", "s", "m">>, <<"m", "o", "d", "e", "l", "/", "v", "n", "d", ".", "g", "d", "l">>>>,
          <<<<".", "i", "s", "m">>, <<"m", "o", "d", "e", "l", "/", "v", "n", "d", ".", "g", "d", "l">>>>,
          <<<<".", "g", "t", "w">>, <<"m", "o", "d", "e", "l", "/", "v", "n", "d", ".", "g", "t", "w">>>>,
          <<<<".", "m", "o", "m", "l">>, <<"m", "o", "d", "e", "l", "/", "v", "n", "d", ".", "m", "o", "m", "l", "+", "x", "m", "l">>>>,
          <<<<".", "m", "t", "s">>, <<"m", "o", "d", "e", "l", "/", "v", "n", "d", ".", "m", "t", "s">>>>,
          <<<<".", "o", "g", "e", "x">>, <<"m", "o", "d", "e", "l", "/", "v", "n", "d", ".", "o", "p", "e", "n", "g", "e", "x">>>>,
          <<<<".", "x", "_", "b">>, <<"m", "o", "d", "e", "l", "/", "v", "n", "d", ".", "p", "a", "r", "a", "s", "o", "l", "i", "d", ".", "t", "r", "a", "n", "s", "m", "i", "t", ".", "b", "i", "n", "a", "r", "y">>>>,
          <<<<".", "x", "m", "t", "_", "b", "i", "n">>, <<"m", "o", "d", "e", "l", "/", "v", "n", "d", ".", "p", "a", "r", "a", "s", "o", "l", "i", "d", ".", "t", "r", "a", "n", "s", "m", "i", "t", ".", "b", "i", "n", "a", "r", "y">>>>,
          <<<<".", "x", "_", "t">>, <<"m", "o", "d", "e", "l", "/", "v", "n", "d", ".", "p", "a", "r", "a", "s", "o", "l", "i", "d", ".", "t", "r", "a", "n", "s", "m", "i", "t", ".", "t", "e", "x", "t">>>>,
          <<<<".", "x", "m", "t", "_", "t", "x", "t">>, <<"m", "o", "d", "e", "l", "/", "v", "n", "d", ".", "p", "a", "r", "a", "s", "o", "l", "i", "d", ".", "t", "r", "a", "n", "s", "m", "i", "t", ".", "t", "e", "x", "t">>>>,
          <<<<".", "p", "y", "o", "x">>, <<"m", "o", "d", "e", "l", "/", "v", "n", "d", ".", "p", "y", "t", "h", "a", ".", "p", "y", "o", "x">>>>,
          <<<<".", "v", "d", "s">>, <<"m", "o", "d", "e", "l", "/", "v", "n", "d", ".", "s", "a", "p", ".", "v", "d", "s">>>>,
          <<<<".", "u", "s", "d", "a">>, <<"m", "o", "d", "e", "l", "/", "v", "n", "d", ".", "u", "s", "d", "a">>>>,
          <<<<".", "u", "s", "d", "z">>, <<"m", "o", "d", "e", "l", "/", "v", "n", "d", ".", "u", "s", "d", "z", "+", "z", "i", "p">>>>,
          <<<<".", "b", "s", "p">>, <<"m", "o", "d", "e", "l", "/", "v", "n", "d", ".", "v", "a", "l", "v", "e", ".", "s", "o", "u", "r", "c", "e", ".", "c", "o", "m", "p", "i", "l", "e", "d", "-", "m", "a", "p">>>>,
          <<<<".", "v", "t", "u">>, <<"m", "o", "d", "e", "l", "/", "v", "n", "d", ".", "v", "t", "u">>>>,
          <<<<".", "w", "r", "l">>, <<"m", "o", "d", "e", "l", "/", "v", "r", "m", "l">>>>,
          <<<<".", "v", "r", "m">>, <<"m", "o", "d", "e", "l", "/", "v", "r", "m", "l">>>>,
          <<<<".", "v", "r", "m", "l">>, <<"m", "o", "d", "e", "l", "/", "v", "r", "m", "l">>>>,
          <<<<".", "x", "3", "d", "b">>, <<"m", "o", "d", "e", "l", "/", "x", "3", "d", "+", "f", "a", "s", "t", "i", "n", "f", "o", "s", "e", "t">>>>,
          <<<<".", "x", "3", "d">>, <<"m", "o", "d", "e", "l", "/", "x", "3", "d", "+", "x", "m", "l">>>>,
          <<<<".", "x", "3", "d", "z">>, <<"m", "o", "d", "e", "l", "/", "x", "3", "d", "+", "x", "m", "l">>>>,
          <<<<".", "x", "3", "d", "v">>, <<"m", "o", "d", "e", "l", "/", "x", "3", "d", "-", "v", "r", "m", "l">>>>,
          <<<<".", "x", "3", "d", "v", "z">>, <<"m", "o", "d", "e", "l", "/", "x", "3", "d", "-", "v", "r", "m", "l">>>>,
          <<<<".", "b", "m", "e", "d">>, <<"m", "u", "l", "t", "i", "p", "a", "r", "t", "/", "v", "n", "d", ".", "b", "i", "n", "t", ".", "m", "e", "d", "-", "p", "l", "u", "s">>>>,
          <<<<".", "v", "p", "m">>, <<"m", "u", "l", "t", "i", "p", "a", "r", "t", "/", "v", "o", "i", "c", "e", "-", "m", "e", "s", "s", "a", "g", "e">>>>,
          <<<<".", "a", "p", "p", "c", "a", "c", "h", "e">>, <<"t", "e", "x", "t", "/", "c", "a", "c", "h", "e", "-", "m", "a", "n", "i", "f", "e", "s", "t">>>>,
          <<<<".", "m", "a", "n", "i", "f", "e", "s", "t">>, <<"t", "e", "x", "t", "/", "c", "a", "c", "h", "e", "-", "m", "a", "n", "i", "f", "e", "s", "t">>>>,
          <<<<".", "i", "c", "s">>, <<"t", "e", "x", "t", "/", "c", "a", "l", "e", "n", "d", "a", "r">>>>,
          <<<<".", "i", "f", "b">>, <<"t", "e", "x", "t", "/", "c", "a", "l", "e", "n", "d", "a", "r">>>>,
          <<<<".", "C", "Q", "L">>, <<"t", "e", "x", "t", "/", "c", "q", "l">>>>,
          <<<<".", "c", "s", "v", "s">>, <<"t", "e", "x", "t", "/", "c", "s", "v", "-", "s", "c", "h", "e", "m", "a">>>>,
          <<<<".", "s", "o", "a">>, <<"t", "e", "x", "t", "/", "d", "n", "s">>>>,
          <<<<".", "z", "o", "n", "e">>, <<"t", "e", "x", "t", "/", "d", "n", "s">>>>,
          <<<<".", "g", "f", "f", "3">>, <<"t", "e", "x", "t", "/", "g", "f", "f", "3">>>>,
          <<<<".", "s", "h", "t", "m", "l">>, <<"t", "e", "x", "t", "/", "h", "t", "m", "l">>>>,
          <<<<".", "e", "s">>, <<"t", "e", "x", "t", "/", "j", "a", "v", "a", "s", "c", "r", "i", "p", "t">>>>,
          <<<<".", "c", "n", "d">>, <<"t", "e", "x", "t", "/", "j", "c", "r", "-", "c", "n", "d">>>>,
          <<<<".", "m", "d">>, <<"t", "e", "x", "t", "/", "m", "a", "r", "k", "d", "o", "w", "n">>>>,
          <<<<".", "m", "a", "r", "k", "d", "o", "w", "n">>, <<"t", "e", "x", "t", "/", "m", "a", "r", "k", "d", "o", "w", "n">>>>,
          <<<<".", "m", "i", "z">>, <<"t", "e", "x", "t", "/", "m", "i", "z", "a", "r">>>>,
          <<<<".", "t", "e", "x", "t">>, <<"t", "e", "x", "t", "/", "p", "l", "a", "i", "n">>>>,
          <<<<".", "b", "r", "f">>, <<"t", "e", "x", "t", "/", "p", "l", "a", "i", "n">>>>,
          <<<<".", "p", "r", "o", "v", "n">>, <<"t", "e", "x", "t", "/", "p", "r", "o", "v", "e", "n", "a", "n", "c", "e", "-", "n", "o", "t", "a", "t", "i", "o", "n">>>>,
          <<<<".", "r", "s", "t">>, <<"t", "e", "x", "t", "/", "p", "r", "s", ".", "f", "a", "l", "l", "e", "n", "s", "t", "e", "i", "n", ".", "r", "s", "t">>>>,
          <<<<".", "t", "a", "g">>, <<"t", "e", "x", "t", "/", "p", "r", "s", ".", "l", "i", "n", "e", "s", ".", "t", "a", "g">>>>,
          <<<<".", "d", "s", "c">>, <<"t", "e", "x", "t", "/", "p", "r", "s", ".", "l", "i", "n", "e", "s", ".", "t", "a", "g">>>>,
          <<<<".", "s", "h", "a", "c", "l", "c">>, <<"t", "e", "x", "t", "/", "s", "h", "a", "c", "l", "c">>>>,
          <<<<".", "s", "h", "c">>, <<"t", "e", "x", "t", "/", "s", "h", "a", "c", "l", "c">>>>,
          <<<<".", "s", "h", "e", "x">>, <<"t", "e", "x", "t", "/", "s", "h", "e", "x">>>>,
          <<<<".", "s", "p", "d", "x">>, <<"t", "e", "x", "t", "/", "s", "p", "d", "x">>>>,
          <<<<".", "t", "m">>, <<"t", "e", "x", "t", "/", "t", "e", "x", "m", "a", "c", "s">>>>,
          <<<<".", "t", "t", "l">>, <<"t", "e", "x", "t", "/", "t", "u", "r", "t", "l", "e">>>>,
          <<<<".", "u", "r", "i", "s">>, <<"t", "e", "x", "t", "/", "u", "r", "i", "-", "l", "i", "s", "t">>>>,
          <<<<".", "u", "r", "i">>, <<"t", "e", "x", "t", "/", "u", "r", "i", "-", "l", "i", "s", "t">>>>,
          <<<<".", "v", "c", "a", "r", "d">>, <<"t", "e", "x", "t", "/", "v", "c", "a", "r", "d">>>>,
          <<<<".", "a", "b", "c">>, <<"t", "e", "x", "t", "/", "v", "n", "d", ".", "a", "b", "c">>>>,
          <<<<".", "a", "s", "c", "i", "i">>, <<"t", "e", "x", "t", "/", "v", "n", "d", ".", "a", "s", "c", "i", "i", "-", "a", "r", "t">>>>,
          <<<<".", "c", "u", "r", "l">>, <<"t", "e", "x", "t", "/", "v", "n", "d", ".", "c", "u", "r", "l">>>>,
          <<<<".", "c", "o", "p", "y", "r", "i", "g", "h", "t">>, <<"t", "e", "x", "t", "/", "v", "n", "d", ".", "d", "e", "b", "i", "a", "n", ".", "c", "o", "p", "y", "r", "i", "g", "h", "t">>>>,
          <<<<".", "d", "m", "s">>, <<"t", "e", "x", "t", "/", "v", "n", "d", ".", "D", "M", "C", "l", "i", "e", "n", "t", "S", "c", "r", "i", "p", "t">>>>,
          <<<<".", "j", "t", "d">>, <<"t", "e", "x", "t", "/", "v", "n", "d", ".", "e", "s", "m", "e", "r", "t", "e", "c", ".", "t", "h", "e", "m", "e", "-", "d", "e", "s", "c", "r", "i", "p", "t", "o", "r">>>>,
          <<<<".", "V", "F", "K">>, <<"t", "e", "x", "t", "/", "v", "n", "d", ".", "e", "x", "c", "h", "a", "n", "g", "e", "a", "b", "l", "e">>>>,
          <<<<".", "g", "e", "d">>, <<"t", "e", "x", "t", "/", "v", "n", "d", ".", "f", "a", "m", "i", "l", "y", "s", "e", "a", "r", "c", "h", ".", "g", "e", "d", "c", "o", "m">>>>,
          <<<<".", "f", "l", "t">>, <<"t", "e", "x", "t", "/", "v", "n", "d", ".", "f", "i", "c", "l", "a", "b", ".", "f", "l", "t">>>>,
          <<<<".", "f", "l", "y">>, <<"t", "e", "x", "t", "/", "v", "n", "d", ".", "f", "l", "y">>>>,
          <<<<".", "f", "l", "x">>, <<"t", "e", "x", "t", "/", "v", "n", "d", ".", "f", "m", "i", ".", "f", "l", "e", "x", "s", "t", "o", "r">>>>,
          <<<<".", "g", "v">>, <<"t", "e", "x", "t", "/", "v", "n", "d", ".", "g", "r", "a", "p", "h", "v", "i", "z">>>>,
          <<<<".", "h", "a", "n", "s">>, <<"t", "e", "x", "t", "/", "v", "n", "d", ".", "h", "a", "n", "s">>>>,
          <<<<".", "h", "g", "l">>, <<"t", "e", "x", "t", "/", "v", "n", "d", ".", "h", "g", "l">>>>,
          <<<<".", "3", "d", "m", "l">>, <<"t", "e", "x", "t", "/", "v", "n", "d", ".", "i", "n", "3", "d", ".", "3", "d", "m", "l">>>>,
          <<<<".", "3", "d", "m">>, <<"t", "e", "x", "t", "/", "v", "n", "d", ".", "i", "n", "3", "d", ".", "3", "d", "m", "l">>>>,
          <<<<".", "s", "p", "o", "t">>, <<"t", "e", "x", "t", "/", "v", "n", "d", ".", "i", "n", "3", "d", ".", "s", "p", "o", "t">>>>,
          <<<<".", "s", "p", "o">>, <<"t", "e", "x", "t", "/", "v", "n", "d", ".", "i", "n", "3", "d", ".", "s", "p", "o", "t">>>>,
          <<<<".", "m", "p", "f">>, <<"t", "e", "x", "t", "/", "v", "n", "d", ".", "m", "s", "-", "m", "e", "d", "i", "a", "p", "a", "c", "k", "a", "g", "e">>>>,
          <<<<".", "c", "c", "c">>, <<"t", "e", "x", "t", "/", "v", "n", "d", ".", "n", "e", "t", "2", "p", "h", "o", "n", "e", ".", "c", "o", "m", "m", "c", "e", "n", "t", "e", "r", ".", "c", "o", "m", "m", "a", "n", "d">>>>,
          <<<<".", "m", "c", "2">>, <<"t", "e", "x", "t", "/", "v", "n", "d", ".", "s", "e", "n", "x", ".", "w", "a", "r", "p", "s", "c", "r", "i", "p", "t">>>>,
          <<<<".", "s", "o", "s">>, <<"t", "e", "x", "t", "/", "v", "n", "d", ".", "s", "o", "s", "i">>>>,
          <<<<".", "j", "a", "d">>, <<"t", "e", "x", "t", "/", "v", "n", "d", ".", "s", "u", "n", ".", "j", "2", "m", "e", ".", "a", "p", "p", "-", "d", "e", "s", "c", "r", "i", "p", "t", "o", "r">>>>,
          <<<<".", "t", "s">>, <<"t", "e", "x", "t", "/", "v", "n", "d", ".", "t", "r", "o", "l", "l", "t", "e", "c", "h", ".", "l", "i", "n", "g", "u", "i", "s", "t">>>>,
          <<<<".", "s", "i">>, <<"t", "e", "x", "t", "/", "v", "n", "d", ".", "w", "a", "p", ".", "s", "i">>>>,
          <<<<".", "s", "l">>, <<"t", "e", "x", "t", "/", "v", "n", "d", ".", "w", "a", "p", ".", "s", "l">>>>,
          <<<<".", "w", "m", "l">>, <<"t", "e", "x", "t", "/", "v", "n", "d", ".", "w", "a", "p", ".", "w", "m", "l">>>>,
          <<<<".", "w", "m", "l", "s">>, <<"t", "e", "x", "t", "/", "v", "n", "d", ".", "w", "a", "p", ".", "w", "m", "l", "s", "c", "r", "i", "p", "t">>>>,
          <<<<".", "w", "g", "s", "l">>, <<"t", "e", "x", "t", "/", "w", "g", "s", "l">>>>,
          <<<<".", "b", "i", "b">>, <<"t", "e", "x", "t", "/", "x", "-", "b", "i", "b", "t", "e", "x">>>>,
          <<<<".", "b", "o", "o">>, <<"t", "e", "x", "t", "/", "x", "-", "b", "o", "o">>>>,
          <<<<".", "h", "+", "+">>, <<"t", "e", "x", "t", "/", "x", "-", "c", "+", "+", "h", "d", "r">>>>,
          <<<<".", "h", "p", "p">>, <<"t", "e", "x", "t", "/", "x", "-", "c", "+", "+", "h", "d", "r">>>>,
          <<<<".", "h", "x", "x">>, <<"t", "e", "x", "t", "/", "x", "-", "c", "+", "+", "h", "d", "r">>>>,
          <<<<".", "h", "h">>, <<"t", "e", "x", "t", "/", "x", "-", "c", "+", "+", "h", "d", "r">>>>,
          <<<<".", "c", "+", "+">>, <<"t", "e", "x", "t", "/", "x", "-", "c", "+", "+", "s", "r", "c">>>>,
          <<<<".", "c", "p", "p">>, <<"t", "e", "x", "t", "/", "x", "-", "c", "+", "+", "s", "r", "c">>>>,
          <<<<".", "c", "x", "x">>, <<"t", "e", "x", "t", "/", "x", "-", "c", "+", "+", "s", "r", "c">>>>,
          <<<<".", "c", "c">>, <<"t", "e", "x", "t", "/", "x", "-", "c", "+", "+", "s", "r", "c">>>>,
          <<<<".", "h", "t", "c">>, <<"t", "e", "x", "t", "/", "x", "-", "c", "o", "m", "p", "o", "n", "e", "n", "t">>>>,
          <<<<".", "d", "i", "f", "f">>, <<"t", "e", "x", "t", "/", "x", "-", "d", "i", "f", "f">>>>,
          <<<<".", "p", "a", "t", "c", "h">>, <<"t", "e", "x", "t", "/", "x", "-", "d", "i", "f", "f">>>>,
          <<<<".", "d">>, <<"t", "e", "x", "t", "/", "x", "-", "d", "s", "r", "c">>>>,
          <<<<".", "h", "s">>, <<"t", "e", "x", "t", "/", "x", "-", "h", "a", "s", "k", "e", "l", "l">>>>,
          <<<<".", "j", "a", "v", "a">>, <<"t", "e", "x", "t", "/", "x", "-", "j", "a", "v", "a">>>>,
          <<<<".", "l", "y">>, <<"t", "e", "x", "t", "/", "x", "-", "l", "i", "l", "y", "p", "o", "n", "d">>>>,
          <<<<".", "l", "h", "s">>, <<"t", "e", "x", "t", "/", "x", "-", "l", "i", "t", "e", "r", "a", "t", "e", "-", "h", "a", "s", "k", "e", "l", "l">>>>,
          <<<<".", "m", "o", "c">>, <<"t", "e", "x", "t", "/", "x", "-", "m", "o", "c">>>>,
          <<<<".", "p">>, <<"t", "e", "x", "t", "/", "x", "-", "p", "a", "s", "c", "a", "l">>>>,
          <<<<".", "p", "a", "s">>, <<"t", "e", "x", "t", "/", "x", "-", "p", "a", "s", "c", "a", "l">>>>,
          <<<<".", "g", "c", "d">>, <<"t", "e", "x", "t", "/", "x", "-", "p", "c", "s", "-", "g", "c", "d">>>>,
          <<<<".", "p", "m">>, <<"t", "e", "x", "t", "/", "x", "-", "p", "e", "r", "l">>>>,
          <<<<".", "s", "c", "a", "l", "a">>, <<"t", "e", "x", "t", "/", "x", "-", "s", "c", "a", "l", "a">>>>,
          <<<<".", "s", "f", "v">>, <<"t", "e", "x", "t", "/", "x", "-", "s", "f", "v">>>>,
          <<<<".", "t", "k">>, <<"t", "e", "x", "t", "/", "x", "-", "t", "c", "l">>>>,
          <<<<".", "l", "t", "x">>, <<"t", "e", "x", "t", "/", "x", "-", "t", "e", "x">>>>,
          <<<<".", "s", "t", "y">>, <<"t", "e", "x", "t", "/", "x", "-", "t", "e", "x">>>>,
          <<<<".", "c", "l", "s">>, <<"t", "e", "x", "t", "/", "x", "-", "t", "e", "x">>>>,
          <<<<".", "v", "c", "s">>, <<"t", "e", "x", "t", "/", "x", "-", "v", "c", "a", "l", "e", "n", "d", "a", "r">>>>,
          <<<<".", "a", "x", "v">>, <<"v", "i", "d", "e", "o", "/", "a", "n", "n", "o", "d", "e", "x">>>>,
          <<<<".", "d", "i", "f">>, <<"v", "i", "d", "e", "o", "/", "d", "v">>>>,
          <<<<".", "d", "v">>, <<"v", "i", "d", "e", "o", "/", "d", "v">>>>,
          <<<<".", "f", "l", "i">>, <<"v", "i", "d", "e", "o", "/", "f", "l", "i">>>>,
          <<<<".", "g", "l">>, <<"v", "i", "d", "e", "o", "/", "g", "l">>>>,
          <<<<".", "m", "4", "s">>, <<"v", "i", "d", "e", "o", "/", "i", "s", "o", ".", "s", "e", "g", "m", "e", "n", "t">>>>,
          <<<<".", "m", "j", "2">>, <<"v", "i", "d", "e", "o", "/", "m", "j", "2">>>>,
          <<<<".", "m", "j", "p", "2">>, <<"v", "i", "d", "e", "o", "/", "m", "j", "2">>>>,
          <<<<".", "m", "p", "g", "4">>, <<"v", "i", "d", "e", "o", "/", "m", "p", "4">>>>,
          <<<<".", "m", "4", "v">>, <<"v", "i", "d", "e", "o", "/", "m", "p", "4">>>>,
          <<<<".", "m", "2", "v">>, <<"v", "i", "d", "e", "o", "/", "m", "p", "e", "g">>>>,
          <<<<".", "o", "g", "v">>, <<"v", "i", "d", "e", "o", "/", "o", "g", "g">>>>,
          <<<<".", "u", "v", "h">>, <<"v", "i", "d", "e", "o", "/", "v", "n", "d", ".", "d", "e", "c", "e", ".", "h", "d">>>>,
          <<<<".", "u", "v", "v", "h">>, <<"v", "i", "d", "e", "o", "/", "v", "n", "d", ".", "d", "e", "c", "e", ".", "h", "d">>>>,
          <<<<".", "u", "v", "m">>, <<"v", "i", "d", "e", "o", "/", "v", "n", "d", ".", "d", "e", "c", "e", ".", "m", "o", "b", "i", "l", "e">>>>,
          <<<<".", "u", "v", "v", "m">>, <<"v", "i", "d", "e", "o", "/", "v", "n", "d", ".", "d", "e", "c", "e", ".", "m", "o", "b", "i", "l", "e">>>>,
          <<<<".", "u", "v", "u">>, <<"v", "i", "d", "e", "o", "/", "v", "n", "d", ".", "d", "e", "c", "e", ".", "m", "p", "4">>>>,
          <<<<".", "u", "v", "v", "u">>, <<"v", "i", "d", "e", "o", "/", "v", "n", "d", ".", "d", "e", "c", "e", ".", "m", "p", "4">>>>,
          <<<<".", "u", "v", "p">>, <<"v", "i", "d", "e", "o", "/", "v", "n", "d", ".", "d", "e", "c", "e", ".", "p", "d">>>>,
          <<<<".", "u", "v", "v", "p">>, <<"v", "i", "d", "e", "o", "/", "v", "n", "d", ".", "d", "e", "c", "e", ".", "p", "d">>>>,
          <<<<".", "u", "v", "s">>, <<"v", "i", "d", "e", "o", "/", "v", "n", "d", ".", "d", "e", "c", "e", ".", "s", "d">>>>,
          <<<<".", "u", "v", "v", "s">>, <<"v", "i", "d", "e", "o", "/", "v", "n", "d", ".", "d", "e", "c", "e", ".", "s", "d">>>>,
          <<<<".", "u", "v", "v">>, <<"v", "i", "d", "e", "o", "/", "v", "n", "d", ".", "d", "e", "c", "e", ".", "v", "i", "d", "e", "o">>>>,
          <<<<".", "u", "v", "v", "v">>, <<"v", "i", "d", "e", "o", "/", "v", "n", "d", ".", "d", "e", "c", "e", ".", "v", "i", "d", "e", "o">>>>,
          <<<<".", "d", "v", "b">>, <<"v", "i", "d", "e", "o", "/", "v", "n", "d", ".", "d", "v", "b", ".", "f", "i", "l", "e">>>>,
          <<<<".", "f", "v", "t">>, <<"v", "i", "d", "e", "o", "/", "v", "n", "d", ".", "f", "v", "t">>>>,
          <<<<".", "m", "x", "u">>, <<"v", "i", "d", "e", "o", "/", "v", "n", "d", ".", "m", "p", "e", "g", "u", "r", "l">>>>,
          <<<<".", "m", "4", "u">>, <<"v", "i", "d", "e", "o", "/", "v", "n", "d", ".", "m", "p", "e", "g", "u", "r", "l">>>>,
          <<<<".", "p", "y", "v">>, <<"v", "i", "d", "e", "o", "/", "v", "n", "d", ".", "m", "s", "-", "p", "l", "a", "y", "r", "e", "a", "d", "y", ".", "m", "e", "d", "i", "a", ".", "p", "y", "v">>>>,
          <<<<".", "n", "i", "m">>, <<"v", "i", "d", "e", "o", "/", "v", "n", "d", ".", "n", "o", "k", "i", "a", ".", "i", "n", "t", "e", "r", "l", "e", "a", "v", "e", "d", "-", "m", "u", "l", "t", "i", "m", "e", "d", "i", "a">>>>,
          <<<<".", "b", "i", "k">>, <<"v", "i", "d", "e", "o", "/", "v", "n", "d", ".", "r", "a", "d", "g", "a", "m", "e", "t", "t", "o", "o", "l", "s", ".", "b", "i", "n", "k">>>>,
          <<<<".", "b", "k", "2">>, <<"v", "i", "d", "e", "o", "/", "v", "n", "d", ".", "r", "a", "d", "g", "a", "m", "e", "t", "t", "o", "o", "l", "s", ".", "b", "i", "n", "k">>>>,
          <<<<".", "s", "m", "k">>, <<"v", "i", "d", "e", "o", "/", "v", "n", "d", ".", "r", "a", "d", "g", "a", "m", "e", "t", "t", "o", "o", "l", "s", ".", "s", "m", "a", "c", "k", "e", "r">>>>,
          <<<<".", "s", "m", "p", "g">>, <<"v", "i", "d", "e", "o", "/", "v", "n", "d", ".", "s", "e", "a", "l", "e", "d", ".", "m", "p", "e", "g", "1">>>>,
          <<<<".", "s", "1", "1">>, <<"v", "i", "d", "e", "o", "/", "v", "n", "d", ".", "s", "e", "a", "l", "e", "d", ".", "m", "p", "e", "g", "1">>>>,
          <<<<".", "s", "1", "4">>, <<"v", "i", "d", "e", "o", "/", "v", "n", "d", ".", "s", "e", "a", "l", "e", "d", ".", "m", "p", "e", "g", "4">>>>,
          <<<<".", "s", "s", "w", "f">>, <<"v", "i", "d", "e", "o", "/", "v", "n", "d", ".", "s", "e", "a", "l", "e", "d", ".", "s", "w", "f">>>>,
          <<<<".", "s", "s", "w">>, <<"v", "i", "d", "e", "o", "/", "v", "n", "d", ".", "s", "e", "a", "l", "e", "d", ".", "s", "w", "f">>>>,
          <<<<".", "s", "m", "o", "v">>, <<"v", "i", "d", "e", "o", "/", "v", "n", "d", ".", "s", "e", "a", "l", "e", "d", "m", "e", "d", "i", "a", ".", "s", "o", "f", "t", "s", "e", "a", "l", ".", "m", "o", "v">>>>,
          <<<<".", "s", "m", "o">>, <<"v", "i", "d", "e", "o", "/", "v", "n", "d", ".", "s", "e", "a", "l", "e", "d", "m", "e", "d", "i", "a", ".", "s", "o", "f", "t", "s", "e", "a", "l", ".", "m", "o", "v">>>>,
          <<<<".", "s", "1", "q">>, <<"v", "i", "d", "e", "o", "/", "v", "n", "d", ".", "s", "e", "a", "l", "e", "d", "m", "e", "d", "i", "a", ".", "s", "o", "f", "t", "s", "e", "a", "l", ".", "m", "o", "v">>>>,
          <<<<".", "v", "i", "v">>, <<"v", "i", "d", "e", "o", "/", "v", "n", "d", ".", "v", "i", "v", "o">>>>,
          <<<<".", "y", "t">>, <<"v", "i", "d", "e", "o", "/", "v", "n", "d", ".", "y", "o", "u", "t", "u", "b", "e", ".", "y", "t">>>>,
          <<<<".", "f", "l", "v">>, <<"v", "i", "d", "e", "o", "/", "x", "-", "f", "l", "v">>>>,
          <<<<".", "l", "s", "f">>, <<"v", "i", "d", "e", "o", "/", "x", "-", "l", "a", "-", "a", "s", "f">>>>,
          <<<<".", "l", "s", "x">>, <<"v", "i", "d", "e", "o", "/", "x", "-", "l", "a", "-", "a", "s", "f">>>>,
          <<<<".", "m", "p", "v">>, <<"v", "i", "d", "e", "o", "/", "x", "-", "m", "a", "t", "r", "o", "s", "k", "a">>>>,
          <<<<".", "m", "k", "v">>, <<"v", "i", "d", "e", "o", "/", "x", "-", "m", "a", "t", "r", "o", "s", "k", "a">>>>,
          <<<<".", "m", "n", "g">>, <<"v", "i", "d", "e", "o", "/", "x", "-", "m", "n", "g">>>>,
          <<<<".", "w", "m">>, <<"v", "i", "d", "e", "o", "/", "x", "-", "m", "s", "-", "w", "m">>>>,
          <<<<".", "w", "m", "v">>, <<"v", "i", "d", "e", "o", "/", "x", "-", "m", "s", "-", "w", "m", "v">>>>,
          <<<<".", "w", "m", "x">>, <<"v", "i", "d", "e", "o", "/", "x", "-", "m", "s", "-", "w", "m", "x">>>>,
          <<<<".", "w", "v", "x">>, <<"v", "i", "d", "e", "o", "/", "x", "-", "m", "s", "-", "w", "v", "x">>>>})

\* urllib.parse._splittype(url): <<scheme, rest>>, the scheme in lower case; a scheme is
\* what stands before the first ':' when that is not empty and holds no '/'
splittype(url) ==
    LET colon == find_char(url, ":", 1)
    IN  IF colon > 1 /\ \A k \in 1..(colon - 1) : url[k] /= "/"
        THEN <<lower(Take(url, colon - 1)), Drop(url, colon)>>
        ELSE <<None, url>>

\* the type of a data URL (what follows 'data:'): <<type, None>>
guess_data_type(url) ==
    LET comma == find_char(url, ",", 1)
        semi == find_char(Take(url, comma - 1), ";", 1)
        type == IF semi >= 1 THEN Take(url, semi - 1) ELSE Take(url, comma - 1)
    IN  IF comma < 1 THEN <<None, None>>
        ELSE IF (\E k \in 1..Len(type) : type[k] = "=")
                \/ ~(\E k \in 1..Len(type) : type[k] = "/")
        THEN <<s_text_plain, None>>
        ELSE <<type, None>>

\* the loop of guess_type over suffix_map, on be = <<base, ext>>
RECURSIVE guess_suffix(_)
guess_suffix(be) ==
    IF lower(be[2]) \in DOMAIN suffix_map
    THEN guess_suffix(splitext(be[1] \o suffix_map[lower(be[2])]))
    ELSE be

\* mimetypes.guess_type(url), strict: <<content_type, encoding>>, each a str or None.
\* The encoding is looked up as the extension is written, the type in lower case.
guess_type(path) ==
    With(splittype(path), LAMBDA su :
        IF su[1] = s_data THEN guess_data_type(su[2])
        ELSE
        LET be == guess_suffix(splitext(su[2]))
            encoding == dict_get(encodings_map, be[2])
            ext == IF encoding /= None THEN splitext(be[1])[2] ELSE be[2]
        IN  <<dict_get(types_map, lower(ext)), encoding>>)


-----------------------------------------------------------------------------
(* The file system the program reads.  It is never written by the program. *)

p_s_a_css == <<"/", "s", "/", "a", ".", "c", "s", "s">>

p_s_a_css_gz == <<"/", "s", "/", "a", ".", "c", "s", "s", ".", "g", "z">>

p_s_a_css_br == <<"/", "s", "/", "a", ".", "c", "s", "s", ".", "b", "r">>

p_s_t_gz == <<"/", "s", "/", "t", ".", "g", "z">>

p_s_e_txt == <<"/", "s", "/", "e", ".", "t", "x", "t">>

p_s_none == <<"/", "s", "/", "n">>

p_r == <<"/", "r">>

p_q == <<"/", "q">>

p_s == <<"/", "s">>

p_t == <<"/", "t">>

p_t_x == <<"/", "t", "/", "x">>

p_t_d == <<"/", "t", "/", "d">>

\* Each node: its absolute path, kind ("reg", "dir", "sock"), st_size, st_mtime (the
\* float: 1000000000.7 for the three a.css files, 1709164799.9999998 for e.txt) and the
\* md5 hex digest of its contents (shortened).
FileSystem ==
    { [path |-> <<"/">>, kind |-> "dir", size |-> 0,
       mtime |-> [secs |-> 1000000000, frac |-> 0], md5 |-> <<>>],
      [path |-> p_s, kind |-> "dir", size |-> 0,
       mtime |-> [secs |-> 1000000000, frac |-> 0], md5 |-> <<>>],
      [path |-> p_r, kind |-> "dir", size |-> 0,
       mtime |-> [secs |-> 1000000000, frac |-> 0], md5 |-> <<>>],
      [path |-> p_q, kind |-> "dir", size |-> 0,
       mtime |-> [secs |-> 1000000000, frac |-> 0], md5 |-> <<>>],
      [path |-> p_s_a_css, kind |-> "reg", size |-> 10,
       mtime |-> [secs |-> 1000000000, frac |-> 375809664], md5 |-> <<"7", "8", "1", "e">>],
      [path |-> p_s_a_css_gz, kind |-> "reg", size |-> 6,
       mtime |-> [secs |-> 1000000000, frac |-> 375809664], md5 |-> <<"b", "2", "0", "c">>],
      [path |-> p_s_a_css_br, kind |-> "reg", size |-> 4,
       mtime |-> [secs |-> 1000000000, frac |-> 375809664], md5 |-> <<"0", "f", "5", "a">>],
      [path |-> p_s_t_gz, kind |-> "reg", size |-> 8,
       mtime |-> [secs |-> 951782400, frac |-> 0], md5 |-> <<"2", "e", "9", "e">>],
      [path |-> p_s_e_txt, kind |-> "reg", size |-> 0,
       mtime |-> [secs |-> 1709164799, frac |-> 536870784], md5 |-> <<"d", "4", "1", "d">>],
      [path |-> <<"/", "r", "/", "x">>, kind |-> "reg", size |-> 5,
       mtime |-> [secs |-> 1000000000, frac |-> 0], md5 |-> <<"a", "1">>],
      [path |-> <<"/", "r", "/", "x", ".", "g", "z">>, kind |-> "reg", size |-> 3,
       mtime |-> [secs |-> 1000000000, frac |-> 0], md5 |-> <<"a", "2">>],
      [path |-> <<"/", "r", "/", "x", "x">>, kind |-> "dir", size |-> 0,
       mtime |-> [secs |-> 1000000000, frac |-> 0], md5 |-> <<>>],
      [path |-> <<"/", "q", "/", "x">>, kind |-> "reg", size |-> 7,
       mtime |-> [secs |-> 1000000060, frac |-> 0], md5 |-> <<"a", "3">>],
      [path |-> <<"/", "x">>, kind |-> "reg", size |-> 9,
       mtime |-> [secs |-> 1000000000, frac |-> 0], md5 |-> <<"a", "4">>],
      [path |-> p_t, kind |-> "dir", size |-> 0,
       mtime |-> [secs |-> 1000000000, frac |-> 0], md5 |-> <<>>],
      [path |-> p_t_x, kind |-> "sock", size |-> 0,
       mtime |-> [secs |-> 1000000000, frac |-> 0], md5 |-> <<>>],
      [path |-> p_t_d, kind |-> "dir", size |-> 0,
       mtime |-> [secs |-> 1000000000, frac |-> 0], md5 |-> <<>>] }

\* the directories the process has no search permission on
Unsearchable == {p_t_d}

\* the longest name a directory entry can have (Linux: 255 bytes)
NAME_MAX == 255

\* the characters a native string can hold that are not ASCII: U+0080 to U+00FF
NonAscii == {"", "", "", "", "", "", "", "", "", "", "", "", "", "",
             "", "", "", "", "", "", "", "", "", "", "", "", "", "",
             "", "", "", "", " ", "¡", "¢", "£", "¤", "¥", "¦", "§", "¨", "©",
             "ª", "«", "¬", "­", "®", "¯", "°", "±", "²", "³", "´", "µ", "¶", "·",
             "¸", "¹", "º", "»", "¼", "½", "¾", "¿", "À", "Á", "Â", "Ã", "Ä", "Å",
             "Æ", "Ç", "È", "É", "Ê", "Ë", "Ì", "Í", "Î", "Ï", "Ð", "Ñ", "Ò", "Ó",
             "Ô", "Õ", "Ö", "×", "Ø", "Ù", "Ú", "Û", "Ü", "Ý", "Þ", "ß", "à", "á",
             "â", "ã", "ä", "å", "æ", "ç", "è", "é", "ê", "ë", "ì", "í", "î", "ï",
             "ð", "ñ", "ò", "ó", "ô", "õ", "ö", "÷", "ø", "ù", "ú", "û", "ü", "ý",
             "þ", "ÿ"}

\* len(os.fsencode(name)) with the UTF-8 file system encoding: one byte for an ASCII
\* character, two for each of U+0080 to U+00FF
fsencode_len(name) == Len(name) + Cardinality({i \in 1..Len(name) : name[i] \in NonAscii})

\* hashlib.md5().hexdigest() with nothing hashed (shortened like the others)
md5_empty == <<"d", "4", "1", "d">>

\* posixpath.dirname of a normalised absolute path other than '/'
dirname(p) ==
    LET i == rfind_char(p, "/", Len(p))
    IN  IF i <= 1 THEN <<"/">> ELSE Take(p, i - 1)

HasNode(p) == \E n \in FileSystem : n.path = p

Node(p) == CHOOSE n \in FileSystem : n.path = p

\* path resolution as the kernel does it, one name after another from the node at
\* `cur`: every name, the empty one of a doubled or trailing slash included, needs the
\* node reached so far to be a directory (ENOTDIR), every name that is not empty needs
\* search permission on it (EACCES), '..' is the parent, a name of more than NAME_MAX
\* bytes is ENAMETOOLONG and an absent one ENOENT.  There are no symbolic links.
resolve_name(cur, name) ==
    IF Node(cur).kind /= "dir" THEN [errno |-> "ENOTDIR", path |-> None]
    ELSE IF name = <<>> THEN [errno |-> "", path |-> cur]
    ELSE IF cur \in Unsearchable THEN [errno |-> "EACCES", path |-> None]
    ELSE IF name = <<".">> THEN [errno |-> "", path |-> cur]
    ELSE IF name = <<".", ".">> THEN [errno |-> "", path |-> dirname(cur)]
    ELSE IF fsencode_len(name) > NAME_MAX THEN [errno |-> "ENAMETOOLONG", path |-> None]
    ELSE IF ~HasNode(path_join(cur, name)) THEN [errno |-> "ENOENT", path |-> None]
    ELSE [errno |-> "", path |-> path_join(cur, name)]

\* the names of a path from the node at `cur`: [errno, path].  The first half of the
\* names is resolved, then the other half from where that ended.
RECURSIVE resolve(_, _)
resolve(cur, names) ==
    IF names = <<>> THEN [errno |-> "", path |-> cur]
    ELSE IF Len(names) = 1 THEN resolve_name(cur, names[1])
    ELSE With(resolve(cur, Take(names, Len(names) \div 2)), LAMBDA r :
             IF r.errno /= "" THEN r
             ELSE resolve(r.path, Drop(names, Len(names) \div 2)))

\* the longest path a system call takes, its final NUL included (Linux: 4096 bytes)
PATH_MAX == 4096

\* the node an absolute path names, [errno, path]: the empty path is ENOENT, one of
\* PATH_MAX bytes or more ENAMETOOLONG, any other is resolved from the root directory
namei(path) ==
    IF path = <<>> THEN [errno |-> "ENOENT", path |-> None]
    ELSE IF fsencode_len(path) >= PATH_MAX THEN [errno |-> "ENAMETOOLONG", path |-> None]
    ELSE resolve(<<"/">>, split(path, "/"))

\* os.stat(path) of an absolute path: the node, or OSError with its errno
os_stat(path) ==
    With(namei(path), LAMBDA r :
        IF r.errno /= "" THEN [exc |-> "OSError", errno |-> r.errno, val |-> None]
        ELSE [exc |-> "none", errno |-> "", val |-> Node(r.path)])


-----------------------------------------------------------------------------
(* wsgiref.headers.Headers: a list of <<name, value>> with case-insensitive names *)

h_Allow == <<"A", "l", "l", "o", "w">>

h_CacheControl == <<"C", "a", "c", "h", "e", "-", "C", "o", "n", "t", "r", "o", "l">>

h_ContentLocation ==
    <<"C", "o", "n", "t", "e", "n", "t", "-", "L", "o", "c", "a", "t", "i", "o", "n">>

h_Date == <<"D", "a", "t", "e">>

h_ETag == <<"E", "T", "a", "g">>

h_Expires == <<"E", "x", "p", "i", "r", "e", "s">>

h_Vary == <<"V", "a", "r", "y">>

h_ContentLength == <<"C", "o", "n", "t", "e", "n", "t", "-", "L", "e", "n", "g", "t", "h">>

h_ContentType == <<"C", "o", "n", "t", "e", "n", "t", "-", "T", "y", "p", "e">>

h_ContentEncoding ==
    <<"C", "o", "n", "t", "e", "n", "t", "-", "E", "n", "c", "o", "d", "i", "n", "g">>

h_ContentRange == <<"C", "o", "n", "t", "e", "n", "t", "-", "R", "a", "n", "g", "e">>

h_LastModified == <<"L", "a", "s", "t", "-", "M", "o", "d", "i", "f", "i", "e", "d">>

s_AcceptEncoding ==
    <<"A", "c", "c", "e", "p", "t", "-", "E", "n", "c", "o", "d", "i", "n", "g">>

s_GET == <<"G", "E", "T">>

s_HEAD == <<"H", "E", "A", "D">>

s_POST == <<"P", "O", "S", "T">>

\* Headers.get(name): the first value of that name, or None
headers_get(headers, name) ==
    IF \E i \in 1..Len(headers) : lower(headers[i][1]) = lower(name)
    THEN headers[CHOOSE i \in 1..Len(headers) :
                    /\ lower(headers[i][1]) = lower(name)
                    /\ \A j \in 1..(i - 1) : lower(headers[j][1]) /= lower(name)][2]
    ELSE None

\* name in headers
headers_contains(headers, name) == headers_get(headers, name) /= None

\* del headers[name]: every item of that name goes
headers_del(headers, name) ==
    SelectSeq(headers, LAMBDA item : lower(item[1]) /= lower(name))

\* headers[name] = val: the items of that name go and one is appended
headers_set(headers, name, val) == Append(headers_del(headers, name), <<name, val>>)

-----------------------------------------------------------------------------
(* whitenoise/static_file.py: building a StaticFile *)

\* Response(status, headers, file); file is the handle open() returned, 0 for None
Response(status, headers, file) == [status |-> status, headers |-> headers, file |-> file]

\* a 405 that leaves HEAD out of the Allow header
NOT_ALLOWED_RESPONSE_get_only ==
    Response(405, << <<h_Allow, <<"G", "E", "T">> >> >>, 0)

NOT_ALLOWED_RESPONSE ==
    Response(405, << <<h_Allow, <<"G", "E", "T", ",", " ", "H", "E", "A", "D">> >> >>, 0)

\* the list of a 304's headers with Last-Modified added to it
NOT_MODIFIED_HEADERS_with_last_modified ==
    <<h_CacheControl, h_ContentLocation, h_Date, h_ETag, h_Expires, h_Vary, h_LastModified>>

NOT_MODIFIED_HEADERS ==
    <<h_CacheControl, h_ContentLocation, h_Date, h_ETag, h_Expires, h_Vary>>

\* except MissingFileError: the class and its subclass IsDirectoryError
IsMissingFileError(exc) == exc \in {"MissingFileError", "IsDirectoryError"}

\* FileEntry.stat_regular_file(path, stat_function); stat_cache is
\* [given |-> FALSE] for None, or [given |-> TRUE, entries |-> the nodes of the dict]
FileEntry_stat_regular_file(path, stat_cache) ==
    With(IF stat_cache.given
         THEN IF \E n \in stat_cache.entries : n.path = path
              THEN [exc |-> "none", errno |-> "",
                    val |-> CHOOSE n \in stat_cache.entries : n.path = path]
              ELSE [exc |-> "KeyError", errno |-> "", val |-> None]
         ELSE os_stat(path), LAMBDA r :
        IF r.exc = "KeyError" THEN Raise("MissingFileError")
        ELSE IF r.exc = "OSError" THEN
            IF r.errno \in {"ENOENT", "ENAMETOOLONG"} THEN Raise("MissingFileError")
            ELSE [exc |-> "OSError", errno |-> r.errno, val |-> None]
        ELSE IF r.val.kind /= "reg" THEN
            IF r.val.kind = "dir" THEN Raise("IsDirectoryError")
            ELSE Raise("NotARegularFileError")
        ELSE Ok(r.val))

\* FileEntry(path, stat_cache): [stat, path]
FileEntry(path, stat_cache) ==
    With(FileEntry_stat_regular_file(path, stat_cache), LAMBDA r :
        IF r.exc /= "none" THEN r
        ELSE Ok([stat |-> r.val, path |-> path]))

\* the loop of get_file_stats over encodings.items(), a list of <<encoding, alt_path>>
RECURSIVE get_file_stats_alternatives(_, _, _)
get_file_stats_alternatives(files, encodings, stat_cache) ==
    IF encodings = <<>> THEN Ok(files)
    ELSE
    With(FileEntry(Head(encodings)[2], stat_cache), LAMBDA e :
        IF e.exc = "none" THEN
            get_file_stats_alternatives(
                Append(files, [encoding |-> Head(encodings)[1], entry |-> e.val]),
                Tail(encodings), stat_cache)
        ELSE IF IsMissingFileError(e.exc) THEN
            get_file_stats_alternatives(files, Tail(encodings), stat_cache)
        ELSE e)

\* StaticFile.get_file_stats(path, encodings, stat_cache): the dict files, as the list of
\* [encoding, entry] in insertion order; the primary file has the encoding None
get_file_stats(path, encodings, stat_cache) ==
    With(FileEntry(path, stat_cache), LAMBDA primary :
        IF primary.exc /= "none" THEN primary
        ELSE get_file_stats_alternatives(
                 << [encoding |-> None, entry |-> primary.val] >>, encodings, stat_cache))

\* StaticFile.set_content_type(headers, path)
set_content_type(headers, path) ==
    With(guess_type(path), LAMBDA g :
    With(headers_set(headers, h_ContentType,
                     IF Truthy(g[1]) THEN g[1] ELSE s_octet_stream), LAMBDA h1 :
        IF Truthy(g[2]) THEN headers_set(h1, h_ContentEncoding, g[2]) ELSE h1))

\* StaticFile.calculate_etag(path, size): the md5 of the contents, which are
\* read only when size is not 0
calculate_etag(path, size) ==
    IF size /= 0 THEN os_stat(path).val.md5 ELSE md5_empty

\* StaticFile.get_headers(headers_list, files, add_etag)
get_headers(headers_list, files, add_etag) ==
    With(files[1].entry, LAMBDA primary_file :
    With(IF Len(files) > 1 THEN headers_set(headers_list, h_Vary, s_AcceptEncoding)
         ELSE headers_list, LAMBDA h1 :
    With(IF ~headers_contains(h1, h_LastModified)
         THEN headers_set(h1, h_LastModified, formatdate(primary_file.stat.mtime))
         ELSE h1, LAMBDA h2 :
    With(IF ~headers_contains(h2, h_ContentType)
         THEN set_content_type(h2, primary_file.path)
         ELSE h2, LAMBDA h3 :
        IF add_etag /\ ~headers_contains(h3, h_ETag)
        THEN headers_set(h3, h_ETag,
                         calculate_etag(primary_file.path, primary_file.stat.size))
        ELSE h3))))

\* StaticFile.get_not_modified_response(headers)
RECURSIVE not_modified_headers(_, _)
not_modified_headers(keys, headers) ==
    IF keys = <<>> THEN <<>>
    ELSE (IF headers_contains(headers, Head(keys))
          THEN << <<Head(keys), headers_get(headers, Head(keys))>> >>
          ELSE <<>>)
         \o not_modified_headers(Tail(keys), headers)

get_not_modified_response(headers) ==
    Response(304, not_modified_headers(NOT_MODIFIED_HEADERS, headers), 0)

\* sorted(files.items(), key=lambda i: i[1].stat.st_size): a stable sort
RECURSIVE insert_by_size(_, _)
insert_by_size(sorted, item) ==
    IF sorted = <<>> THEN <<item>>
    ELSE IF sorted[Len(sorted)].entry.stat.size <= item.entry.stat.size
         THEN Append(sorted, item)
    ELSE Append(insert_by_size(Take(sorted, Len(sorted) - 1), item), sorted[Len(sorted)])

\* files.items() left in insertion order
files_by_size_unsorted(files) == files

RECURSIVE files_by_size(_)
files_by_size(files) ==
    IF files = <<>> THEN <<>>
    ELSE insert_by_size(files_by_size(Take(files, Len(files) - 1)), files[Len(files)])

\* the body of the loop of get_alternatives for one <<encoding, file_entry>>
alternative_of(base_headers, f) ==
    LET h1 == headers_set(base_headers, h_ContentLength, str(f.entry.stat.size))
    IN  IF Truthy(f.encoding)
        THEN [encoding_re |-> [word |-> f.encoding], path |-> f.entry.path,
              headers |-> headers_set(h1, h_ContentEncoding, f.encoding)]
        ELSE [encoding_re |-> [word |-> None], path |-> f.entry.path, headers |-> h1]

\* StaticFile.get_alternatives(base_headers, files)
get_alternatives(base_headers, files) ==
    With(files_by_size(files), LAMBDA by_size :
        [i \in 1..Len(by_size) |-> alternative_of(base_headers, by_size[i])])

\* StaticFile(path, headers, encodings, add_etag, stat_cache)
StaticFile(path, headers_list, encodings, add_etag, stat_cache) ==
    With(get_file_stats(path, encodings, stat_cache), LAMBDA files :
        IF files.exc /= "none" THEN files
        ELSE
        With(get_headers(headers_list, files.val, add_etag), LAMBDA headers :
            Ok([last_modified |-> parsedate(headers_get(headers, h_LastModified)),
                etag |-> headers_get(headers, h_ETag),
                not_modified_response |-> get_not_modified_response(headers),
                alternatives |-> get_alternatives(headers, files.val)])))


-----------------------------------------------------------------------------
(* whitenoise/static_file.py: answering a request.  request_headers is the environ /
   META mapping, a record of the four keys the code reads, None for an absent key. *)

s_bytes == <<"b", "y", "t", "e", "s">>

\* a conditional check that never finds the ETag matched
etag_matches_never(self, request_headers) == FALSE

\* StaticFile.etag_matches(request_headers)
etag_matches(self, request_headers) ==
    IF ~Truthy(self.etag) THEN FALSE
    ELSE self.etag = request_headers.HTTP_IF_NONE_MATCH

\* StaticFile.not_modified_since(request_headers)
not_modified_since(self, request_headers) ==
    IF request_headers.HTTP_IF_MODIFIED_SINCE = None THEN Ok(FALSE)
    ELSE date_ge(request_headers.HTTP_IF_MODIFIED_SINCE, self.last_modified)

\* is_not_modified with its two tests in the other order
is_not_modified_date_first(self, request_headers) ==
    With(not_modified_since(self, request_headers), LAMBDA r :
        IF r.exc /= "none" THEN r
        ELSE IF r.val THEN r
        ELSE Ok(etag_matches(self, request_headers)))

\* StaticFile.is_not_modified(request_headers)
is_not_modified(self, request_headers) ==
    IF etag_matches(self, request_headers) THEN Ok(TRUE)
    ELSE not_modified_since(self, request_headers)

\* StaticFile.get_path_and_headers(request_headers): the first alternative whose pattern
\* is found in Accept-Encoding; the function falls off its end (None) when there is none
get_path_and_headers(self, request_headers) ==
    LET accept_encoding == IF request_headers.HTTP_ACCEPT_ENCODING = None THEN <<>>
                           ELSE request_headers.HTTP_ACCEPT_ENCODING
        matching == {i \in 1..Len(self.alternatives) :
                        re_search(self.alternatives[i].encoding_re, accept_encoding)}
    IN  IF matching = {} THEN [found |-> FALSE, path |-> None, headers |-> <<>>]
        ELSE LET first == CHOOSE i \in matching : \A j \in matching : i <= j
             IN  [found |-> TRUE, path |-> self.alternatives[first].path,
                  headers |-> self.alternatives[first].headers]

\* StaticFile.parse_byte_range(range_header): Ok(<<start, end>>), end = None for an
\* open end, or ValueError
parse_byte_range(range_header) ==
    With(partition(strip(range_header), "="), LAMBDA p1 :   \* units, _, range_spec
    With(partition(strip(p1[3]), "-"), LAMBDA p2 :          \* start_str, sep, end_str
        IF p1[1] /= s_bytes THEN Raise("ValueError")
        ELSE IF p2[2] /= <<"-">> THEN Raise("ValueError")
        ELSE IF p2[1] = <<>> THEN
            With(int(p2[3]), LAMBDA e :
                IF e.exc /= "none" THEN Raise(e.exc)
                ELSE Ok([start |-> py_neg(e).val, start_wide |-> e.wide,
                         end |-> 0, end_wide |-> FALSE, open_end |-> TRUE]))
        ELSE
            With(int(p2[1]), LAMBDA s :
            With(IF p2[3] /= <<>> THEN int(p2[3])
                 ELSE [exc |-> "none", val |-> 0, wide |-> FALSE], LAMBDA e :
                IF s.exc /= "none" THEN Raise(s.exc)
                ELSE IF e.exc /= "none" THEN Raise(e.exc)
                ELSE Ok([start |-> s.val, start_wide |-> s.wide,
                         end |-> e.val, end_wide |-> e.wide, open_end |-> p2[3] = <<>>])))))

\* StaticFile.get_byte_range(range_header, size): Ok([start, end]) or ValueError.  size
\* is the size of a file, below 2^31, so that a wide start or end lies outside the file
get_byte_range(range_header, size) ==
    With(parse_byte_range(range_header), LAMBDA p :
        IF p.exc /= "none" THEN p
        ELSE
        LET p_start == [val |-> p.val.start, wide |-> p.val.start_wide]
            p_end == [val |-> p.val.end, wide |-> p.val.end_wide]
            narrow(n) == [val |-> n, wide |-> FALSE]
            start == IF ~py_negative(p_start) THEN p_start
                     ELSE IF p_start.wide THEN narrow(0)
                     ELSE narrow(Max(p_start.val + size, 0))
            end == IF p.val.open_end THEN narrow(size - 1)
                   ELSE IF py_ge(p_end, narrow(size - 1)) THEN p_end
                   ELSE narrow(size - 1)
        IN  IF py_ge(start, end) THEN Raise("ValueError")
            ELSE Ok([start |-> start.val, end |-> end.val]))

\* StaticFile.get_range_response(range_header, base_headers, file_handle).  The loop
\* over base_headers calls the item itself at the Content-Length item (item(item[1]),
\* line 61): a tuple is not callable, so the call raises TypeError there.  Without such
\* an item the name size is unbound at line 65.  Lines 64-77 are reached in neither
\* case.
get_range_response(range_header, base_headers, file_handle) ==
    IF \E i \in 1..Len(base_headers) : base_headers[i][1] = h_ContentLength
    THEN Raise("TypeError")
    ELSE Raise("UnboundLocalError")

\* StaticFile.get_response(method, request_headers).  fh is the handle open() returns
\* if it is called.  The outcome is [exc, val, opened]: the Response returned or the
\* exception raised, and the path opened (None when no file was opened).
get_response(self, method, request_headers, fh) ==
    IF method /= s_GET /\ method /= s_HEAD THEN
        [exc |-> "none", val |-> NOT_ALLOWED_RESPONSE, opened |-> None]
    ELSE
    With(is_not_modified(self, request_headers), LAMBDA nm :
        IF nm.exc /= "none" THEN [exc |-> nm.exc, val |-> None, opened |-> None]
        ELSE IF nm.val THEN
            [exc |-> "none", val |-> self.not_modified_response, opened |-> None]
        ELSE
        With(get_path_and_headers(self, request_headers), LAMBDA alt :
        LET file_handle == IF method /= s_HEAD THEN fh ELSE 0
            opened == IF method /= s_HEAD THEN alt.path ELSE None
            range_header == request_headers.HTTP_RANGE
        IN  IF ~alt.found THEN [exc |-> "TypeError", val |-> None, opened |-> None]
            ELSE IF Truthy(range_header) THEN
                With(get_range_response(range_header, alt.headers, file_handle),
                     LAMBDA r : [exc |-> r.exc, val |-> r.val, opened |-> opened])
            ELSE [exc |-> "none", val |-> Response(200, alt.headers, file_handle),
                  opened |-> opened]))

-----------------------------------------------------------------------------
(* whitenoise/middleware.py: the Django shim *)

s_default_content_type ==
    <<"t", "e", "x", "t", "/", "h", "t", "m", "l", ";", " ",
      "c", "h", "a", "r", "s", "e", "t", "=", "u", "t", "f", "-", "8">>

\* http_response[key] = value on a Django response: names are case-insensitive and
\* an assignment replaces the item of that name
http_response_set(headers, key, value) ==
    IF \E i \in 1..Len(headers) : lower(headers[i][1]) = lower(key)
    THEN [i \in 1..Len(headers) |->
             IF lower(headers[i][1]) = lower(key) THEN <<key, value>> ELSE headers[i]]
    ELSE Append(headers, <<key, value>>)

RECURSIVE copy_headers(_, _)
copy_headers(http_headers, response_headers) ==
    IF response_headers = <<>> THEN http_headers
    ELSE copy_headers(
             http_response_set(http_headers, Head(response_headers)[1],
                               Head(response_headers)[2]),
             Tail(response_headers))

\* the part of WhiteNoiseMiddleware.serve after get_response has returned `response`:
\* a FileResponse with the default Content-Type removed and the headers copied
middleware_response(response) ==
    LET initial == << <<h_ContentType, s_default_content_type>> >>
        cleared == headers_del(initial, <<"c", "o", "n", "t", "e", "n", "t", "-",
                                          "t", "y", "p", "e">>)
    IN  [status |-> response.status,
         headers |-> copy_headers(cleared, response.headers),
         streaming_content |-> response.file]

\* WhiteNoiseMiddleware.serve(static_file, request): an exception of get_response
\* propagates
middleware_serve(static_file, method, META, fh) ==
    With(get_response(static_file, method, META, fh), LAMBDA r :
        IF r.exc /= "none" THEN r
        ELSE [exc |-> "none", val |-> middleware_response(r.val), opened |-> r.opened])


-----------------------------------------------------------------------------
(* whitenoise/base.py: the WSGI registry and dispatcher *)

\* WhiteNoise.max_age, the default
max_age == 60

\* WhiteNoise.FOREVER
FOREVER == 10 * 365 * 24 * 60 * 60

s_charset == <<"u", "t", "f", "-", "8">>

s_dot_gz == <<".", "g", "z">>

\* base.stat_regular_file(path): a directory counts as a missing file
stat_regular_file(path) ==
    With(os_stat(path), LAMBDA r :
        IF r.exc = "OSError" THEN
            IF r.errno = "ENOENT" THEN Raise("MissingFileError")
            ELSE [exc |-> "OSError", errno |-> r.errno, val |-> None]
        ELSE IF r.val.kind /= "reg" THEN
            IF r.val.kind = "dir" THEN Raise("MissingFileError")
            ELSE Raise("NotARegularFileError")
        ELSE Ok(r.val))

\* format_prefix(prefix); prefix is a str or None
format_prefix(prefix) ==
    LET stripped == strip_slash(IF Truthy(prefix) THEN prefix ELSE <<>>)
    IN  IF stripped /= <<>> THEN <<"/">> \o stripped \o <<"/">> ELSE <<"/">>

\* MediaTypes.get_type(path) of whitenoise/media_types.py: the type of the file name's
\* extension, application/octet-stream when it has none in the table
media_types_get_type(path) ==
    LET ty == dict_get(types_map, lower(splitext(path)[2]))
    IN  IF ty = None THEN s_octet_stream ELSE ty

\* WhiteNoise.get_charset(media_type, path, url): a str or None
get_charset(media_type) ==
    IF \/ startswith(media_type, <<"t", "e", "x", "t", "/">>)
       \/ media_type = <<"a", "p", "p", "l", "i", "c", "a", "t", "i", "o", "n", "/",
                         "j", "a", "v", "a", "s", "c", "r", "i", "p", "t">>
    THEN s_charset
    ELSE None

\* WhiteNoise.add_mime_headers: headers.add_header('Content-Type', media_type, **params)
add_mime_headers(headers, path) ==
    With(media_types_get_type(path), LAMBDA media_type :
    With(get_charset(media_type), LAMBDA cs :
        Append(headers,
               <<h_ContentType,
                 IF Truthy(cs)
                 THEN media_type \o <<";", " ", "c", "h", "a", "r", "s", "e", "t", "=", "\"">>
                      \o cs \o <<"\"">>
                 ELSE media_type>>)))

\* an oracle that takes every file for immutable
is_immutable_file_always(path, url) == TRUE

\* WhiteNoise.is_immutable_file(path, url): the default oracle
is_immutable_file(path, url) == FALSE

s_public_max_age == <<"p", "u", "b", "l", "i", "c", ",", " ",
                      "m", "a", "x", "-", "a", "g", "e", "=">>

\* WhiteNoise.add_cache_headers once self.is_immutable_file has answered, age being
\* self.max_age (an int)
cache_headers(headers, immutable, age) ==
    headers_set(headers, h_CacheControl,
                s_public_max_age \o str(IF immutable THEN FOREVER ELSE age))

\* WhiteNoise.add_cache_headers of a WhiteNoise with the default max_age
add_cache_headers(headers, path, url) ==
    cache_headers(headers, is_immutable_file(path, url), max_age)

\* WhiteNoise.add_cors_headers, allow_all_origins being True
add_cors_headers(headers) ==
    headers_set(headers,
                <<"A", "c", "c", "e", "s", "s", "-", "C", "o", "n", "t", "r", "o", "l", "-",
                  "A", "l", "l", "o", "w", "-", "O", "r", "i", "g", "i", "n">>,
                <<"*">>)

\* WhiteNoise.get_static_file(path, url): [exc, val, stats]; val is the base.StaticFile
\* and stats the paths handed to os.stat, in order.  gzip_path is None without a gzip
\* sibling.
get_static_file(path, url) ==
    With(stat_regular_file(path), LAMBDA st :
        IF st.exc /= "none" THEN [exc |-> st.exc, val |-> None, stats |-> <<path>>]
        ELSE
        With(add_cors_headers(add_cache_headers(add_mime_headers(
                 headers_set(headers_set(<<>>, h_LastModified, formatdate(st.val.mtime)),
                             h_ContentLength, str(st.val.size)),
                 path), path, url)), LAMBDA h2 :
        With(parsedate(headers_get(h2, h_LastModified)), LAMBDA last_modified :
        With(path \o s_dot_gz, LAMBDA gzip_path :
        With(stat_regular_file(gzip_path), LAMBDA gz :
            IF gz.exc = "MissingFileError" THEN
                [exc |-> "none", stats |-> <<path, gzip_path>>,
                 val |-> [path |-> path, headers |-> h2, last_modified |-> last_modified,
                          gzip_path |-> None, gzip_headers |-> <<>>]]
            ELSE IF gz.exc /= "none" THEN
                [exc |-> gz.exc, val |-> None, stats |-> <<path, gzip_path>>]
            ELSE
                With(headers_set(h2, h_Vary, s_AcceptEncoding), LAMBDA h3 :
                    [exc |-> "none", stats |-> <<path, gzip_path>>,
                     val |-> [path |-> path, headers |-> h3,
                              last_modified |-> last_modified,
                              gzip_path |-> gzip_path,
                              gzip_headers |->
                                  headers_set(headers_set(h3, h_ContentEncoding, s_gzip),
                                              h_ContentLength, str(gz.val.size))]]))))))

\* the loop of find_file over self.directories; stats collects the paths stat'ed
RECURSIVE find_file_loop(_, _, _)
find_file_loop(dirs, url, stats) ==
    IF dirs = <<>> THEN [exc |-> "none", found |-> FALSE, val |-> None, stats |-> stats]
    ELSE
    LET root == Head(dirs)[1]
        prefix == Head(dirs)[2]
    IN  IF startswith(url, prefix) THEN
            With(get_static_file(path_join(root, Drop(url, Len(prefix))), url),
                 LAMBDA sf :
                IF sf.exc = "none" THEN
                    [exc |-> "none", found |-> TRUE, val |-> sf.val,
                     stats |-> stats \o sf.stats]
                ELSE IF sf.exc = "MissingFileError" THEN
                    find_file_loop(Tail(dirs), url, stats \o sf.stats)
                ELSE [exc |-> sf.exc, found |-> FALSE, val |-> None,
                      stats |-> stats \o sf.stats])
        ELSE find_file_loop(Tail(dirs), url, stats)

\* WhiteNoise.find_file(url): [exc, found, val, stats]
find_file(directories, url) ==
    IF url = <<>> \/ url[Len(url)] = "/" THEN
        [exc |-> "none", found |-> FALSE, val |-> None, stats |-> <<>>]
    ELSE IF normpath(url) /= url THEN
        [exc |-> "none", found |-> FALSE, val |-> None, stats |-> <<>>]
    ELSE find_file_loop(directories, url, <<>>)

\* WhiteNoise.get_path_and_headers(static_file, environ)
base_get_path_and_headers(static_file, environ) ==
    LET accept_encoding == IF environ.HTTP_ACCEPT_ENCODING = None THEN <<>>
                           ELSE environ.HTTP_ACCEPT_ENCODING
    IN  IF Truthy(static_file.gzip_path) /\ re_search([word |-> s_gzip], accept_encoding)
        THEN [path |-> static_file.gzip_path, headers |-> static_file.gzip_headers]
        ELSE [path |-> static_file.path, headers |-> static_file.headers]

\* WhiteNoise.file_not_modified(static_file, environ)
file_not_modified(static_file, environ) ==
    IF environ.HTTP_IF_MODIFIED_SINCE = None THEN Ok(FALSE)
    ELSE date_ge(environ.HTTP_IF_MODIFIED_SINCE, static_file.last_modified)

\* WhiteNoise.serve(static_file, environ, start_response): [exc, val, opened]; val is
\* what start_response was given, with the handle of the body (0 for the empty list)
serve(static_file, environ, fh) ==
    LET method == environ.REQUEST_METHOD
    IN  IF method /= s_GET /\ method /= s_HEAD THEN
            [exc |-> "none", val |-> NOT_ALLOWED_RESPONSE, opened |-> None]
        ELSE
        With(file_not_modified(static_file, environ), LAMBDA nm :
        With(base_get_path_and_headers(static_file, environ), LAMBDA ph :
            IF nm.exc /= "none" THEN [exc |-> nm.exc, val |-> None, opened |-> None]
            ELSE IF nm.val THEN
                [exc |-> "none", val |-> Response(304, <<>>, 0), opened |-> None]
            ELSE IF method = s_HEAD THEN
                [exc |-> "none", val |-> Response(200, ph.headers, 0), opened |-> None]
            ELSE [exc |-> "none", val |-> Response(200, ph.headers, fh),
                  opened |-> ph.path]))


-----------------------------------------------------------------------------
(* whitenoise/django.py: the immutability oracle of the Django middleware *)

\* string_utils.ensure_leading_trailing_slash(path)
ensure_leading_trailing_slash(path) ==
    LET stripped == strip_slash(IF Truthy(path) THEN path ELSE <<>>)
    IN  IF stripped /= <<>> THEN <<"/">> \o stripped \o <<"/">> ELSE <<"/">>

\* WhiteNoiseMiddleware.get_name_without_hash(filename)
get_name_without_hash(filename) ==
    LET name_with_hash == splitext(filename)[1]
        ext == splitext(filename)[2]
    IN  splitext(name_with_hash)[1] \o ext

\* staticfiles_storage.url(name) of a manifest storage [base_url, manifest]: the base
\* URL followed by the hashed name the manifest has for the name, ValueError without
\* an entry
staticfiles_storage_url(storage, name) ==
    IF \E e \in storage.manifest : e[1] = name
    THEN Ok(storage.base_url \o (CHOOSE e \in storage.manifest : e[1] = name)[2])
    ELSE Raise("ValueError")

\* WhiteNoiseMiddleware.get_static_url(name): a str or None
get_static_url(storage, name) ==
    LET r == staticfiles_storage_url(storage, name)
    IN  IF r.exc = "ValueError" THEN None ELSE r.val

\* WhiteNoiseMiddleware.is_immutable_file(path, url), self.static_prefix and the
\* storage given
django_is_immutable_file(static_prefix, storage, url) ==
    IF ~startswith(url, static_prefix) THEN FALSE
    ELSE
    LET name == Drop(url, Len(static_prefix))
        name_without_hash == get_name_without_hash(name)
    IN  IF name = name_without_hash THEN FALSE
        ELSE LET static_url == get_static_url(storage, name_without_hash)
             IN  IF Truthy(static_url) /\ static_url /= None /\ endswith(static_url, url)
                 THEN TRUE
                 ELSE FALSE

-----------------------------------------------------------------------------
(* The inputs of the model *)

\* the settings of a Django middleware: the path of STATIC_URL, the storage and max_age
\* (0 under DEBUG)
s_static_url == <<"/", "s", "/">>

s_a_css == <<"a", ".", "c", "s", "s">>

s_a_h_css == <<"a", ".", "h", ".", "c", "s", "s">>

DjangoStaticPrefixes == {None, <<"s">>, s_static_url}

DjangoManifest == { <<s_a_css, s_a_h_css>> }

DjangoStorages ==
    { [base_url |-> s_static_url, manifest |-> DjangoManifest],
      [base_url |-> <<"h", "t", "t", "p", ":", "/", "/", "c", "/", "s", "/">>,
       manifest |-> DjangoManifest],
      [base_url |-> <<"/">>, manifest |-> DjangoManifest],
      [base_url |-> s_static_url, manifest |-> {}] }

DjangoMaxAges == {max_age, 0}

DjangoUrls ==
    { s_static_url \o s_a_h_css,
      s_static_url \o s_a_css,
      s_static_url \o <<"a", ".", "g", ".", "c", "s", "s">>,
      <<"/">> \o s_a_h_css,
      <<"/">> \o s_a_css,
      <<"/", "t", "/">> \o s_a_h_css,
      s_static_url \o s_a_h_css \o <<".", "g", "z">>,
      s_static_url \o <<"a">>,
      s_static_url }

s_garbage == <<"g", "a", "r", "b", "a", "g", "e">>

\* the If-Modified-Since of tests/test_django_whitenoise.py
s_date_2100 == <<"F", "r", "i", ",", " ", "1", "1", " ", "A", "p", "r", " ", "2", "1", "0", "0",
                 " ", "1", "1", ":", "4", "7", ":", "0", "6", " ", "G", "M", "T">>

\* the second 1000000000 in the date format of RFC 850
s_date_rfc850 == <<"S", "u", "n", "d", "a", "y", ",", " ", "0", "9", "-", "S", "e", "p", "-",
                   "0", "1", " ", "0", "1", ":", "4", "6", ":", "4", "0", " ", "G", "M", "T">>

s_etag_caller == <<"W", "1">>

Methods == {s_GET, s_HEAD, s_POST}

\* constructor arguments of StaticFile: the identity path, the caller's header list, the
\* encodings dict as a list of <<encoding, path>>, add_etag
\* a name one character longer than a directory entry can be
s_long_name == [i \in 1..(NAME_MAX + 1) |-> "x"]

\* four regular or absent files, then a socket, a directory, a name below a regular
\* file and a name too long
AssetPaths ==
    {p_s_a_css, p_s_t_gz, p_s_e_txt, p_s_none,
     p_t_x, p_s, p_s_a_css \o <<"/", "x">>, p_s \o <<"/">> \o s_long_name}

AssetHeaderLists ==
    { <<>>,
      << << <<"e", "t", "a", "g">>, s_etag_caller >>,
         << h_CacheControl, <<"m", "a", "x", "-", "a", "g", "e", "=", "6", "0">> >>,
         << h_ContentType, <<"t", "e", "x", "t", "/", "p", "l", "a", "i", "n">> >> >> }

AssetEncodings ==
    { <<>>,
      << <<s_gzip, p_s_a_css_gz>>, <<s_br, p_s_a_css_br>> >>,
      << <<s_br, <<"/", "s", "/", "n", ".", "b", "r">> >>, <<s_gzip, p_s_a_css_gz>> >>,
      << <<s_gzip, p_s_a_css_gz>>, <<s_br, p_t_x>> >> }

AssetInputs ==
    [path : AssetPaths, headers : AssetHeaderLists, encodings : AssetEncodings,
     add_etag : BOOLEAN]

IfNoneMatchValues == {None, <<>>, s_etag_caller, <<"7", "8", "1", "e">>}

IfModifiedSinceValues ==
    {None, s_garbage, s_date_2100, s_date_rfc850,
     formatdate([secs |-> 1000000000, frac |-> 0]),
     formatdate([secs |-> 999999999, frac |-> 0])}

RangeValues ==
    {None, <<>>, <<"b", "y", "t", "e", "s", "=", "0", "-", "4">>,
     <<"b", "y", "t", "e", "s", "=", "-", "3">>,
     <<"b", "y", "t", "e", "s", "=", "a", "b", "c">>}

AcceptEncodingValues ==
    {None, s_gzip, <<"b", "r", ",", " ", "g", "z", "i", "p">>,
     <<"x", "g", "z", "i", "p">>, <<"x", "-", "g", "z", "i", "p">>}

RequestHeaders ==
    [HTTP_IF_NONE_MATCH : IfNoneMatchValues,
     HTTP_IF_MODIFIED_SINCE : IfModifiedSinceValues,
     HTTP_RANGE : RangeValues,
     HTTP_ACCEPT_ENCODING : AcceptEncodingValues]

\* Range headers handed to get_byte_range: bytes=a-b, bytes=a-, bytes=-n for the numbers
\* up to MaxSize, and strings that are malformed one way each
s_bytes_eq == s_bytes \o <<"=">>

ByteRangeHeaders ==
    {s_bytes_eq \o str(a) \o <<"-">> \o str(b) : a \in 0..MaxSize, b \in 0..MaxSize}
    \cup {s_bytes_eq \o str(a) \o <<"-">> : a \in 0..MaxSize}
    \cup {s_bytes_eq \o <<"-">> \o str(n) : n \in 0..(2 * MaxSize)}
    \cup { <<"b", "y", "t", "e", "s", "=", "0", "-", "1", "0", "0">>,
           <<"b", "y", "t", "e", "s", "=", "a", "b", "c">>,
           <<"i", "t", "e", "m", "s", "=", "0", "-", "4">>,
           <<"b", "y", "t", "e", "s", "=", "4">>,
           <<"b", "y", "t", "e", "s", "=", "-">>,
           <<"b", "y", "t", "e", "s", "=", "-", "-", "3">>,
           <<"b", "y", "t", "e", "s", " ", "=", "0", "-", "4">>,
           <<" ", "b", "y", "t", "e", "s", "=", " ", "2", " ", "-", " ", "7", " ">>,
           <<"b", "y", "t", "e", "s", "=", "0", "-", "1", ",", "3", "-", "4">>,
           <<"b", "y", "t", "e", "s">> }

\* the strings over the alphabet of length n, and the URLs of the model
UrlAlphabet == {"/", ".", "x"}

RECURSIVE StringsOfLen(_)
StringsOfLen(n) ==
    IF n = 0 THEN { <<>> }
    ELSE {Append(s, c) : s \in StringsOfLen(n - 1), c \in UrlAlphabet}

\* PATH_INFO: the empty string, or a path that starts with a slash
Urls == { <<>> } \cup {<<"/">> \o s : s \in UNION {StringsOfLen(n) : n \in 0..(MaxUrlLen - 1)}}

\* arguments of add_files
Roots == {p_r, p_q, p_t}

Prefixes == {None, <<"x">>}

\* the (root, prefix) pairs add_files is called with: each root without a prefix, and
\* one of them under a prefix as well
MountArguments == (Roots \X {None}) \cup {<<p_r, <<"x">>>>}

WsgiEnvirons ==
    [PATH_INFO : Urls \cup {<<"/">> \o s_long_name}, REQUEST_METHOD : Methods,
     HTTP_IF_MODIFIED_SINCE : {None, s_garbage,
                               formatdate([secs |-> 1000000000, frac |-> 0]),
                               formatdate([secs |-> 999999999, frac |-> 0])},
     HTTP_ACCEPT_ENCODING : {None, s_gzip}]

-----------------------------------------------------------------------------
(* The state *)

VARIABLES
    pc,           \* "idle", or "returned" once the call in `request` has ended
    static_file,  \* the StaticFile constructor's arguments and outcome: [args, exc, val]
    request,      \* the call being made: [op, ...its arguments]
    response,     \* its outcome: [exc, val, ...]
    handles,      \* the file handles the call opened: a list of [path, pos, closed]
    autorefresh,  \* WhiteNoise.autorefresh
    files,        \* WhiteNoise.files: a dict, the function from a URL to its StaticFile
    directories,  \* WhiteNoise.directories: a list of <<root, prefix>>
    mounts,       \* the add_files calls made so far, in order: a list of <<root, prefix>>
    threads       \* the requests server threads are handling at once: per thread
                  \* [pc, environ, lookup, response]

vars == <<pc, static_file, request, response, handles, autorefresh, files, directories,
          mounts, threads>>

\* the threads of the WSGI server that call the application at the same time
Threads == {1, 2}

NoThreads == [t \in Threads |-> [pc |-> "idle"]]

\* no thread is in a call of the application
ThreadsIdle == threads = NoThreads

registry == <<autorefresh, files, directories, mounts>>

NoRequest == [op |-> "none"]

NoResponse == [exc |-> "none"]

\* open(path, 'rb') of a call that had opened nothing yet
opened_handles(path) ==
    IF path = None THEN <<>> ELSE << [path |-> path, pos |-> 0, closed |-> FALSE] >>

\* StaticFile(path, headers, encodings=..., add_etag=...) with os.stat as the stat function
NewStaticFile(i) ==
    With(StaticFile(i.path, i.headers, i.encodings, i.add_etag, [given |-> FALSE]),
         LAMBDA r : [args |-> i, exc |-> r.exc, val |-> r.val])

\* A StaticFile has been constructed from some arguments; no WhiteNoise is in play.
Init ==
    /\ pc = "idle"
    /\ static_file \in {NewStaticFile(i) : i \in AssetInputs}
    /\ request = NoRequest
    /\ response = NoResponse
    /\ handles = <<>>
    /\ autorefresh = FALSE
    /\ files = <<>>
    /\ directories = <<>>
    /\ mounts = <<>>
    /\ threads = NoThreads

\* static_file.get_response(method, request_headers)
GetResponse ==
    /\ pc = "idle"
    /\ static_file.exc = "none"
    /\ \E method \in Methods, request_headers \in RequestHeaders :
        \E r \in {get_response(static_file.val, method, request_headers, 1)} :
           /\ response' = r
           /\ handles' = opened_handles(r.opened)
           /\ request' = [op |-> "get_response", method |-> method,
                          headers |-> request_headers]
    /\ pc' = "returned"
    /\ UNCHANGED <<threads, static_file, registry>>

\* StaticFileView.__call__(request): WhiteNoiseMiddleware.serve(self, request)
ViewCall ==
    /\ pc = "idle"
    /\ static_file.exc = "none"
    /\ \E method \in Methods, META \in RequestHeaders :
        \E r \in {middleware_serve(static_file.val, method, META, 1)} :
           /\ response' = r
           /\ handles' = opened_handles(r.opened)
           /\ request' = [op |-> "view", method |-> method, headers |-> META]
    /\ pc' = "returned"
    /\ UNCHANGED <<threads, static_file, registry>>

\* the sizes get_range_response reads off the Content-Length of a variant's headers
variant_sizes(self) ==
    {int(headers_get(self.alternatives[i].headers, h_ContentLength)).val :
        i \in 1..Len(self.alternatives)}

\* static_file.get_byte_range(range_header, size), size being that of one of the variants
GetByteRange ==
    /\ pc = "idle"
    /\ static_file.exc = "none"
    /\ \E range_header \in ByteRangeHeaders, size \in variant_sizes(static_file.val) :
           /\ response' = get_byte_range(range_header, size)
           /\ request' = [op |-> "get_byte_range", range_header |-> range_header,
                          size |-> size]
    /\ pc' = "returned"
    /\ UNCHANGED <<threads, static_file, handles, registry>>

\* the body of the call that returned is a yield_file generator the server has not yet
\* exhausted or closed
BodyPending ==
    /\ pc = "returned"
    /\ request.op = "call"
    /\ response.exc = "none"
    /\ handles /= <<>>

\* the caller is done with the outcome; the next call starts from a clean slate.  A WSGI
\* server exhausts or closes the body before it is done.
Return ==
    /\ pc \in {"returned", "finished"}
    /\ ~BodyPending
    /\ pc' = "idle"
    /\ request' = NoRequest
    /\ response' = NoResponse
    /\ handles' = IF request.op = "add_files" THEN handles ELSE <<>>
    /\ UNCHANGED <<threads, static_file, registry>>

\* paths handed to the stat wrappers: a regular file, an absent name, a directory, a
\* socket, a name below a regular file, a name below an unsearchable directory, a name
\* too long, a name below an absent directory; then a regular file with a trailing
\* slash, '..' after an absent name, after a directory and after an unsearchable one
StatPaths ==
    { <<"/", "r", "/", "x">>, <<"/", "r", "/", "n">>, <<"/", "r", "/", "x", "x">>,
      p_t_x, <<"/", "r", "/", "x", "/", "x">>, p_t_d \o <<"/", "x">>,
      p_r \o <<"/">> \o s_long_name, <<"/", "n", "/", "x">>,
      <<"/", "r", "/", "x", "/">>, <<"/", "r", "/", "n", "/", ".", ".", "/", "x">>,
      <<"/", "r", "/", "x", "x", "/", ".", ".", "/", "x">>, p_t_d \o <<"/", ".", ".">> }

\* FileEntry.stat_regular_file(path, os.stat)
FileEntryStat ==
    /\ pc = "idle"
    /\ ThreadsIdle
    /\ mounts = <<>>
    /\ \E path \in StatPaths :
        \E r \in {FileEntry_stat_regular_file(path, [given |-> FALSE])} :
           /\ response' = r
           /\ request' = [op |-> "FileEntry.stat_regular_file", path |-> path]
    /\ pc' = "returned"
    /\ UNCHANGED <<threads, static_file, handles, registry>>

\* one call at a time: the next one starts when the last has returned
Next ==
    \/ GetResponse
    \/ ViewCall
    \/ GetByteRange
    \/ FileEntryStat
    \/ Return

Spec == Init /\ [][Next]_vars


-----------------------------------------------------------------------------
(* The WSGI application: WhiteNoise(application, autorefresh=...) and its calls *)

NoStaticFile == [args |-> None, exc |-> "unbuilt", val |-> None]

\* WhiteNoise.__init__(application, root=None): no files, no directories
InitRegistry ==
    /\ pc = "idle"
    /\ static_file = NoStaticFile
    /\ request = NoRequest
    /\ response = NoResponse
    /\ handles = <<>>
    /\ autorefresh \in BOOLEAN
    /\ files = <<>>
    /\ directories = <<>>
    /\ mounts = <<>>
    /\ threads = NoThreads

\* self.files.get(url): [found, val]
files_get(fs, url) ==
    IF url \in DOMAIN fs THEN [found |-> TRUE, val |-> fs[url]]
    ELSE [found |-> FALSE, val |-> None]

\* a dictionary store that leaves an existing key alone
files_set_keep_existing(fs, url, sf) ==
    IF url \in DOMAIN fs THEN fs
    ELSE [u \in DOMAIN fs \cup {url} |-> IF u = url THEN sf ELSE fs[u]]

\* self.files[url] = static_file
files_set(fs, url, sf) == [u \in DOMAIN fs \cup {url} |-> IF u = url THEN sf ELSE fs[u]]

\* the sequences that list the members of the finite set S, each once
orders(S) ==
    {s \in [1..Cardinality(S) -> S] : \A i, j \in 1..Cardinality(S) : s[i] = s[j] => i = j}

\* the nodes a listing of the directory dir names
scandir(dir) == {n \in FileSystem : n.path /= <<"/">> /\ dirname(n.path) = dir}

\* os.walk(top, followlinks=True), top down, for a top that is the directory dir: what
\* the loops of update_files_dictionary get as os.path.join(directory, filename), in
\* every order they can get it in.  A directory is listed in the order the file system
\* has its entries in, which nothing in the code fixes: first come its entries that are
\* no directories, then what the walk of each of its directories yields.  A directory
\* that cannot be listed yields nothing (os.walk passes over the OSError); the
\* directories of Unsearchable give no permission to read either.
RECURSIVE walk_dir(_, _), walk_dirs(_, _, _)
walk_dir(top, dir) ==
    IF dir \in Unsearchable THEN {<<>>}
    ELSE
    LET nondirs == {path_join(top, basename(n.path)) : n \in {m \in scandir(dir) : m.kind /= "dir"}}
        dirs == {basename(n.path) : n \in {m \in scandir(dir) : m.kind = "dir"}}
    IN  {filenames \o below :
            filenames \in orders(nondirs),
            below \in UNION {walk_dirs(top, dir, ds) : ds \in orders(dirs)}}

walk_dirs(top, dir, dirs) ==
    IF dirs = <<>> THEN {<<>>}
    ELSE {first \o rest :
            first \in walk_dir(path_join(top, Head(dirs)), path_join(dir, Head(dirs))),
            rest \in walk_dirs(top, dir, Tail(dirs))}

\* the sequences of paths the two loops over os.walk(root) can run through; a root that
\* is no directory, or none that can be reached, yields nothing
walk(root) ==
    With(namei(root), LAMBDA r :
        IF r.errno /= "" \/ Node(r.path).kind /= "dir" THEN {<<>>}
        ELSE walk_dir(root, r.path))

\* str.replace('\\', '/')
replace_backslash(s) == [i \in 1..Len(s) |-> IF s[i] = "\\" THEN "/" ELSE s[i]]

\* one turn of the loop of update_files_dictionary, lines 167 to 169: [exc, files]; an
\* exception of get_static_file leaves the map as it is
update_files_dictionary(fs, path, root, prefix) ==
    With(prefix \o replace_backslash(relpath(path, root)), LAMBDA url :
    With(get_static_file(path, url), LAMBDA sf :
        IF sf.exc /= "none" THEN [exc |-> sf.exc, files |-> fs]
        ELSE [exc |-> "none", files |-> files_set(fs, url, sf.val)]))

\* WhiteNoise.add_files(root, prefix).  In on-demand mode the call is the one insert.
\* In eager mode it is the start of the walk, in any order the file system may list the
\* files in: the entries are stored one by one, and nothing keeps a thread from calling
\* the application between two of them.
AddFiles ==
    /\ pc = "idle"
    /\ static_file = NoStaticFile   \* the object is a WhiteNoise, not a lone StaticFile
    /\ Len(mounts) < MaxMounts
    /\ \E root \in Roots, prefix \in Prefixes :
        /\ <<root, prefix>> \in MountArguments
        /\ \A i \in 1..Len(mounts) : mounts[i] /= <<root, format_prefix(prefix)>>
        /\ IF autorefresh
           THEN /\ directories' = << <<root, format_prefix(prefix)>> >> \o directories
                /\ request' = [op |-> "add_files", root |-> root, prefix |-> prefix,
                               paths |-> <<>>]
           ELSE /\ directories' = directories
                /\ \E paths \in walk(root) :
                       request' = [op |-> "add_files", root |-> root, prefix |-> prefix,
                                   paths |-> paths]
        /\ pc' = IF request'.paths = <<>> THEN "returned" ELSE "adding"
        /\ mounts' = IF request'.paths = <<>>
                     THEN Append(mounts, <<root, format_prefix(prefix)>>) ELSE mounts
    /\ response' = [exc |-> "none"]
    /\ UNCHANGED <<threads, static_file, handles, autorefresh, files>>

\* the next file of the walk: self.files[url] = self.get_static_file(path, url).  The
\* call returns after the last one, or raises what get_static_file raised; mounts
\* lists the calls that have ended.
AddFilesStep ==
    /\ pc = "adding"
    /\ \E u \in {update_files_dictionary(files, Head(request.paths), request.root,
                                         format_prefix(request.prefix))} :
        /\ files' = u.files
        /\ response' = [exc |-> u.exc]
        /\ request' = [request EXCEPT !.paths = IF u.exc /= "none" THEN <<>> ELSE Tail(@)]
    /\ pc' = IF request'.paths = <<>> THEN "returned" ELSE "adding"
    /\ mounts' = IF request'.paths = <<>>
                 THEN Append(mounts, <<request.root, format_prefix(request.prefix)>>)
                 ELSE mounts
    /\ UNCHANGED <<threads, static_file, handles, autorefresh, directories>>

\* self.application(environ, start_response): what the wrapped application returns for
\* the request it is handed
application(environ) == [application_result_for |-> environ]

\* a pass-through that hands the application a request without its conditional header
pass_through_rewritten(environ) ==
    [calls |-> << [environ EXCEPT !.HTTP_IF_MODIFIED_SINCE = None] >>,
     val |-> application([environ EXCEPT !.HTTP_IF_MODIFIED_SINCE = None])]

\* return self.application(environ, start_response): [calls, val], calls being the
\* requests the application was invoked with
pass_through(environ) ==
    [calls |-> <<environ>>, val |-> application(environ)]

\* WhiteNoise.__call__(environ, start_response): [exc, found, passed, calls, val, opened,
\* stats, static_file]; found says that the lookup gave a StaticFile (static_file),
\* passed that the request went to self.application, calls with which requests
wsgi_call(auto, fs, dirs, environ, fh) ==
    With(IF auto THEN find_file(dirs, environ.PATH_INFO)
         ELSE [exc |-> "none", stats |-> <<>>] @@ files_get(fs, environ.PATH_INFO),
         LAMBDA lookup :
        IF lookup.exc /= "none" THEN
            [exc |-> lookup.exc, found |-> FALSE, passed |-> FALSE, val |-> None,
             calls |-> <<>>,
             opened |-> None, stats |-> lookup.stats, static_file |-> None]
        ELSE IF ~lookup.found THEN
            With(pass_through(environ), LAMBDA app :
                [exc |-> "none", found |-> FALSE, passed |-> TRUE, val |-> app.val,
                 calls |-> app.calls,
                 opened |-> None, stats |-> lookup.stats, static_file |-> None])
        ELSE With(serve(lookup.val, environ, fh), LAMBDA r :
                 [exc |-> r.exc, found |-> TRUE, passed |-> FALSE, val |-> r.val,
                  calls |-> <<>>,
                  opened |-> r.opened, stats |-> lookup.stats,
                  static_file |-> lookup.val]))

\* a lookup that keeps the StaticFile it found in self.files
files_after_lookup_cached(fs, url, found, sf) ==
    IF found THEN files_set(fs, url, sf) ELSE fs

\* self.files once __call__ has looked the URL up: neither find_file nor files.get
\* stores anything
files_after_lookup(fs, url, found, sf) == fs

Call ==
    /\ pc = "idle"
    /\ ThreadsIdle
    /\ static_file = NoStaticFile   \* the object is a WhiteNoise, not a lone StaticFile
    /\ \E environ \in WsgiEnvirons :
        \E r \in {wsgi_call(autorefresh, files, directories, environ, 1)} :
           /\ response' = r
           /\ handles' = opened_handles(r.opened)
           /\ request' = [op |-> "call", environ |-> environ]
           /\ files' = files_after_lookup(files, environ.PATH_INFO, r.found,
                                          r.static_file)
    /\ pc' = "returned"
    /\ UNCHANGED <<threads, static_file, autorefresh, directories, mounts>>

\* the requests the two threads make at once: thread 1 asks for /x, which is a file of
\* the roots /r and /q and a socket of /t, and takes gzip; thread 2 asks for /x if it was
\* modified since the files of /r were, or for /x/x, which is below a regular file
ConcurrentEnvirons ==
    [t \in Threads |->
        IF t = 1
        THEN { [PATH_INFO |-> <<"/", "x">>, REQUEST_METHOD |-> s_GET,
                HTTP_IF_MODIFIED_SINCE |-> None, HTTP_ACCEPT_ENCODING |-> s_gzip] }
        ELSE { [PATH_INFO |-> <<"/", "x">>, REQUEST_METHOD |-> s_GET,
                HTTP_IF_MODIFIED_SINCE |-> formatdate([secs |-> 1000000000, frac |-> 0]),
                HTTP_ACCEPT_ENCODING |-> None],
               [PATH_INFO |-> <<"/", "x", "/", "x">>, REQUEST_METHOD |-> s_GET,
                HTTP_IF_MODIFIED_SINCE |-> None, HTTP_ACCEPT_ENCODING |-> None] }]

\* WhiteNoise.BLOCK_SIZE
BLOCK_SIZE == 16 * 4096

Min(a, b) == IF a <= b THEN a ELSE b

\* the open file of thread t, among the handles kept in the order of the threads
thread_handles(hs, t) == SelectSeq(hs, LAMBDA h : h.thread = t)

with_thread_handle(hs, t, path) ==
    IF path = None THEN hs
    ELSE SelectSeq(hs, LAMBDA h : h.thread < t)
         \o << [path |-> path, pos |-> 0, closed |-> FALSE, thread |-> t] >>
         \o SelectSeq(hs, LAMBDA h : h.thread > t)

\* a thread of the server enters __call__(environ, start_response)
ThreadCall ==
    /\ pc \in {"idle", "adding"}
    /\ static_file = NoStaticFile
    /\ \E t \in Threads :
        \E environ \in ConcurrentEnvirons[t] :
        /\ threads[t].pc = "idle"
        /\ threads' = [threads EXCEPT ![t] = [pc |-> "called", environ |-> environ]]
    /\ UNCHANGED <<pc, static_file, request, response, handles, registry>>

\* the thread's lookup, lines 103-106 of __call__: find_file builds a StaticFile of the
\* thread's own, files.get gives the one all threads share; either way the thread holds
\* the object from here on.  A lookup that raises ends the call, and so does one that
\* finds nothing, with what the wrapped application returns.  met is the registry as
\* the lookup read it, kept until the thread has served the object.
ThreadLookup ==
    /\ \E t \in Threads :
        /\ threads[t].pc = "called"
        /\ \E l \in {IF autorefresh THEN find_file(directories, threads[t].environ.PATH_INFO)
                      ELSE [exc |-> "none", stats |-> <<>>]
                           @@ files_get(files, threads[t].environ.PATH_INFO)} :
            /\ threads' = [threads EXCEPT ![t] =
                   [environ |-> threads[t].environ]
                   @@ IF l.exc /= "none" THEN
                          [pc |-> "returned", response |-> [exc |-> l.exc, val |-> None]]
                      ELSE IF ~l.found THEN
                          [pc |-> "returned",
                           response |-> [exc |-> "none",
                                         val |-> pass_through(threads[t].environ).val]]
                      ELSE [pc |-> "found", static_file |-> l.val,
                            met |-> [files |-> files, directories |-> directories]]]
            /\ files' = files_after_lookup(files, threads[t].environ.PATH_INFO,
                                           l.exc = "none" /\ l.found, l.val)
    /\ UNCHANGED <<pc, static_file, request, response, handles, autorefresh,
                   directories, mounts>>

\* the thread's self.serve(static_file, environ, start_response) on the StaticFile its
\* lookup gave it; the file it opens is the thread's body
ThreadServe ==
    /\ \E t \in Threads :
        /\ threads[t].pc = "found"
        /\ \E r \in {serve(threads[t].static_file, threads[t].environ, 1)} :
            /\ threads' = [threads EXCEPT ![t] =
                              [pc |-> "returned", environ |-> threads[t].environ,
                               response |-> [exc |-> r.exc, val |-> r.val]]]
            /\ handles' = with_thread_handle(handles, t,
                              IF r.exc = "none" THEN r.opened ELSE None)
    /\ UNCHANGED <<pc, static_file, request, response, registry>>

\* the body of the thread's response is a yield_file generator the server has not yet
\* exhausted or closed
ThreadBodyPending(t) ==
    /\ threads[t].pc = "returned"
    /\ thread_handles(handles, t) /= <<>>

\* the server asks the thread's body for its next block (see YieldFileNext)
ThreadYieldFileNext ==
    /\ \E t \in Threads :
        /\ ThreadBodyPending(t)
        /\ \E h \in {thread_handles(handles, t)[1]} :
           \E n \in {Min(BLOCK_SIZE, Node(h.path).size - h.pos)} :
            \/ /\ n > 0
               /\ handles' = [i \in 1..Len(handles) |->
                                 IF handles[i].thread = t
                                 THEN [handles[i] EXCEPT !.pos = @ + n] ELSE handles[i]]
               /\ threads' = threads
            \/ /\ n = 0
               /\ handles' = [i \in 1..Len(handles) |->
                                 IF handles[i].thread = t
                                 THEN [handles[i] EXCEPT !.closed = TRUE] ELSE handles[i]]
               /\ threads' = [threads EXCEPT ![t] = [pc |-> "finished"]]
            \/ /\ handles' = [i \in 1..Len(handles) |->
                                 IF handles[i].thread = t
                                 THEN [handles[i] EXCEPT !.closed = TRUE] ELSE handles[i]]
               /\ threads' = [threads EXCEPT ![t] = [pc |-> "finished"]]
    /\ UNCHANGED <<pc, static_file, request, response, registry>>

\* the server closes the thread's body early (see YieldFileClose)
ThreadYieldFileClose ==
    /\ \E t \in Threads :
        /\ ThreadBodyPending(t)
        /\ handles' = [i \in 1..Len(handles) |->
                          IF handles[i].thread = t /\ handles[i].pos > 0
                          THEN [handles[i] EXCEPT !.closed = TRUE] ELSE handles[i]]
        /\ threads' = [threads EXCEPT ![t] = [pc |-> "finished"]]
    /\ UNCHANGED <<pc, static_file, request, response, registry>>

\* the server is through with the thread's response
ThreadReturn ==
    /\ \E t \in Threads :
        /\ threads[t].pc \in {"returned", "finished"}
        /\ ~ThreadBodyPending(t)
        /\ threads' = [threads EXCEPT ![t] = [pc |-> "idle"]]
        /\ handles' = SelectSeq(handles, LAMBDA h : h.thread /= t)
    /\ UNCHANGED <<pc, static_file, request, response, registry>>

\* add_cache_headers of a Django middleware with the given settings, for a URL: the
\* Cache-Control it sets on an empty header list and what the oracle said.  It does not
\* depend on the mounts; the model takes it from a registry without any.
DjangoAddCacheHeaders ==
    /\ pc = "idle"
    /\ ThreadsIdle
    /\ static_file = NoStaticFile
    /\ mounts = <<>>
    /\ \E prefix \in DjangoStaticPrefixes, storage \in DjangoStorages,
          age \in DjangoMaxAges, url \in DjangoUrls :
        \E immutable \in {django_is_immutable_file(
                              ensure_leading_trailing_slash(prefix), storage, url)} :
           /\ response' = [exc |-> "none", immutable |-> immutable,
                           val |-> cache_headers(<<>>, immutable, age)]
           /\ request' = [op |-> "add_cache_headers", static_prefix |-> prefix,
                          storage |-> storage, max_age |-> age, url |-> url]
    /\ pc' = "returned"
    /\ UNCHANGED <<threads, static_file, handles, registry>>

\* the server asks the body for its next block: yield_file reads up to BLOCK_SIZE bytes
\* and yields them, or, on an empty block, leaves the loop and closes the file; a read
\* that raises closes the file on its way out as well
YieldFileNext ==
    /\ BodyPending
    /\ \E n \in {Min(BLOCK_SIZE, Node(handles[1].path).size - handles[1].pos)} :
        \/ /\ n > 0
           /\ handles' = << [handles[1] EXCEPT !.pos = @ + n] >>
           /\ pc' = "returned"
           /\ response' = response
        \/ /\ n = 0
           /\ handles' = << [handles[1] EXCEPT !.closed = TRUE] >>
           /\ pc' = "finished"
           /\ response' = response
        \/ /\ handles' = << [handles[1] EXCEPT !.closed = TRUE] >>
           /\ pc' = "finished"
           /\ response' = [response EXCEPT !.exc = "OSError"]
    /\ UNCHANGED <<threads, static_file, request, registry>>

\* the server closes the body early (the peer went away).  A generator suspended at its
\* yield gets GeneratorExit there and runs the finally clause; one that was never
\* started is marked finished without running any of its code.
YieldFileClose ==
    /\ BodyPending
    /\ handles' = IF handles[1].pos > 0
                  THEN << [handles[1] EXCEPT !.closed = TRUE] >>
                  ELSE handles
    /\ pc' = "finished"
    /\ UNCHANGED <<threads, static_file, request, response, registry>>

\* base.stat_regular_file(path)
StatRegularFile ==
    /\ pc = "idle"
    /\ ThreadsIdle
    /\ static_file = NoStaticFile
    /\ mounts = <<>>
    /\ \E path \in StatPaths :
        \E r \in {stat_regular_file(path)} :
           /\ response' = r
           /\ request' = [op |-> "stat_regular_file", path |-> path]
    /\ pc' = "returned"
    /\ UNCHANGED <<threads, static_file, handles, registry>>

NextRegistry ==
    \/ StatRegularFile
    \/ AddFiles
    \/ AddFilesStep
    \/ Call
    \/ YieldFileNext
    \/ YieldFileClose
    \/ DjangoAddCacheHeaders
    \/ Return

SpecRegistry == InitRegistry /\ [][NextRegistry]_vars


-----------------------------------------------------------------------------
(* whitenoise/compress.py: the producer of the .br and .gz siblings *)

\* Compressor.SKIP_COMPRESS_EXTENSIONS
SKIP_COMPRESS_EXTENSIONS ==
    << <<"j", "p", "g">>,
       <<"j", "p", "e", "g">>,
       <<"p", "n", "g">>,
       <<"g", "i", "f">>,
       <<"w", "e", "b", "p">>,
       <<"z", "i", "p">>,
       <<"g", "z">>,
       <<"t", "g", "z">>,
       <<"b", "z", "2">>,
       <<"t", "b", "z">>,
       <<"x", "z">>,
       <<"b", "r">>,
       <<"s", "w", "f">>,
       <<"f", "l", "v">>,
       <<"w", "o", "f", "f">>,
       <<"w", "o", "f", "f", "2">> >>

\* Compressor.get_extension_re(extensions): the pattern ^$ without extensions, and
\* \.(e1|e2|...)$ with re.IGNORECASE otherwise
get_extension_re(extensions) ==
    IF extensions = <<>> THEN [empty |-> TRUE, extensions |-> <<>>]
    ELSE [empty |-> FALSE, extensions |-> extensions]

\* extension_re.search(filename).  $ matches at the end and before a newline that ends
\* the string.
extension_re_search(extension_re, filename) ==
    LET f == IF endswith(filename, <<"\n">>) THEN Take(filename, Len(filename) - 1)
             ELSE filename
    IN  IF extension_re.empty THEN filename = <<>> \/ filename = <<"\n">>
        ELSE \E i \in 1..Len(extension_re.extensions) :
                \/ endswith(lower(filename), <<".">> \o lower(extension_re.extensions[i]))
                \/ endswith(lower(f), <<".">> \o lower(extension_re.extensions[i]))

\* Compressor.should_compress(filename)
should_compress(extension_re, filename) == ~extension_re_search(extension_re, filename)

\* a test that asks for any saving at all
is_compressed_effectively_if_smaller(orig_size, compressed_size) ==
    compressed_size < orig_size

\* Compressor.is_compressed_effectively(encoding_name, path, orig_size, data), data
\* having compressed_size bytes: compressed_size / orig_size <= 0.95.  The quotient of
\* the two sizes rounds to the double 0.95 exactly when it is 19/20, for any size below
\* 2^49, so the test is the one on integers.
is_compressed_effectively(orig_size, compressed_size) ==
    IF orig_size = 0 THEN FALSE
    ELSE compressed_size * 20 <= orig_size * 19

\* Compressor.compress(path) run to its end: the siblings written, as a list of
\* [suffix, size].  size is that of the file, brotli_size and gzip_size those of
\* compress_brotli(data) and compress_gzip(data).
compress(use_gzip, use_brotli, size, brotli_size, gzip_size) ==
    LET br == IF use_brotli /\ is_compressed_effectively(size, brotli_size)
              THEN << [suffix |-> <<".", "b", "r">>, size |-> brotli_size] >>
              ELSE <<>>
        gz == IF use_gzip /\ is_compressed_effectively(size, gzip_size)
              THEN << [suffix |-> s_dot_gz, size |-> gzip_size] >>
              ELSE <<>>
    IN  IF use_brotli /\ ~is_compressed_effectively(size, brotli_size) THEN <<>>
        ELSE br \o gz

\* the body of main's loop for one file name, the Compressor being built from the
\* arguments: Compressor.__init__ turns brotli off when the module is not installed
main_file(extensions, use_gzip, use_brotli, brotli_installed, filename, size, brotli_size, gzip_size) ==
    IF should_compress(get_extension_re(extensions), filename)
    THEN compress(use_gzip, use_brotli /\ brotli_installed, size, brotli_size, gzip_size)
    ELSE <<>>

\* the arguments of a run and the files it meets
CompressExtensionLists == {SKIP_COMPRESS_EXTENSIONS, <<>>, << <<"c", "s", "s">> >>}

CompressFilenames ==
    { s_a_css, <<"i", ".", "j", "p", "g">>, <<"i", ".", "J", "P", "G">>,
      <<"a", ".", "t", "a", "r", ".", "g", "z">>, <<"j", "p", "g">>,
      <<"i", ".", "j", "p", "g", ".", "c", "s", "s">>, <<".", "b", "r">> }

OrigSizes == {0, 20, 100}

CompressedSizes == {1, 19, 20, 94, 95, 96, 120}

\* no server is in play: the object is a Compressor
NoServer == [args |-> None, exc |-> "compressor", val |-> None]

InitCompress ==
    /\ pc = "idle"
    /\ static_file = NoServer
    /\ request = NoRequest
    /\ response = NoResponse
    /\ handles = <<>>
    /\ autorefresh = FALSE
    /\ files = <<>>
    /\ directories = <<>>
    /\ mounts = <<>>
    /\ threads = NoThreads

\* main meets one file
CompressFile ==
    /\ pc = "idle"
    /\ static_file = NoServer
    /\ \E extensions \in CompressExtensionLists, use_gzip \in BOOLEAN,
          use_brotli \in BOOLEAN, brotli_installed \in BOOLEAN,
          filename \in CompressFilenames, size \in OrigSizes,
          brotli_size \in CompressedSizes, gzip_size \in CompressedSizes :
           /\ response' = [exc |-> "none",
                           written |-> main_file(extensions, use_gzip, use_brotli,
                                                 brotli_installed, filename, size,
                                                 brotli_size, gzip_size)]
           /\ request' = [op |-> "compress", extensions |-> extensions,
                          use_gzip |-> use_gzip, use_brotli |-> use_brotli,
                          brotli_installed |-> brotli_installed, filename |-> filename,
                          size |-> size, brotli_size |-> brotli_size,
                          gzip_size |-> gzip_size]
    /\ pc' = "returned"
    /\ UNCHANGED <<threads, static_file, handles, registry>>

NextCompress ==
    \/ CompressFile
    \/ Return

SpecCompress == InitCompress /\ [][NextCompress]_vars


\* Either entry point: a StaticFile served on its own (get_response, the Django view),
\* or a WhiteNoise WSGI application.
InitAll == Init \/ InitRegistry

NextAll == Next \/ NextRegistry

SpecAll == InitAll /\ [][NextAll]_vars

\* The same, with requests that threads of the server handle at the same time
NextConcurrent ==
    \/ NextAll
    \/ ThreadCall
    \/ ThreadLookup
    \/ ThreadServe
    \/ ThreadYieldFileNext
    \/ ThreadYieldFileClose
    \/ ThreadReturn

SpecConcurrent == InitAll /\ [][NextConcurrent]_vars


-----------------------------------------------------------------------------
(* Properties.  A call has returned when pc = "returned"; request and response then
   hold the call and its outcome. *)

\* a call of the asset engine, directly (get_response) or through the Django view
AssetCallReturned == pc = "returned" /\ request.op \in {"get_response", "view"}

\* a WSGI call whose lookup gave a StaticFile
KnownUrlCallReturned == pc = "returned" /\ request.op = "call" /\ response.found

GetOrHead(method) == method = s_GET \/ method = s_HEAD

\* the body of a returned response: the file handle, 0 when there is none
BodyOf(req, resp) ==
    IF req.op = "view" THEN resp.val.streaming_content ELSE resp.val.file

s_GET_HEAD == <<"G", "E", "T", ",", " ", "H", "E", "A", "D">>

\* the request's If-None-Match is the asset's ETag
ETagIsMatched ==
    /\ Truthy(static_file.val.etag)
    /\ request.headers.HTTP_IF_NONE_MATCH = static_file.val.etag

\* the date tuple a is not before the date tuple b, by day and then by second
DayOf(d) == (d[1] * 12 + d[2]) * 31 + d[3]

SecondOf(d) == (d[4] * 60 + d[5]) * 60 + d[6]

NotBefore(a, b) ==
    \/ DayOf(a) > DayOf(b)
    \/ DayOf(a) = DayOf(b) /\ SecondOf(a) >= SecondOf(b)

\* C1: a method other than GET and HEAD is answered with status 405, the single header
\* Allow: GET, HEAD and no body, and no file is opened: by get_response, by the Django
\* view around it and by the WSGI serve of a known URL, whatever the other headers.
C1_MethodNotAllowed ==
    /\ (AssetCallReturned /\ ~GetOrHead(request.method)) =>
          /\ response.exc = "none"
          /\ response.val.status = 405
          /\ response.val.headers = << <<h_Allow, s_GET_HEAD>> >>
          /\ BodyOf(request, response) = 0
          /\ response.opened = None
          /\ handles = <<>>
    /\ (KnownUrlCallReturned /\ ~GetOrHead(request.environ.REQUEST_METHOD)) =>
          /\ response.exc = "none"
          /\ response.val.status = 405
          /\ response.val.headers = << <<h_Allow, s_GET_HEAD>> >>
          /\ response.val.file = 0
          /\ response.opened = None
          /\ handles = <<>>

\* a POST that carries the asset's ETag and a Range has been answered 405
C1_Witness ==
    /\ AssetCallReturned
    /\ request.op = "get_response"
    /\ request.method = s_POST
    /\ ETagIsMatched
    /\ Truthy(request.headers.HTTP_RANGE)
    /\ response.exc = "none"
    /\ response.val.status = 405

\* C2: when the asset has an ETag and If-None-Match equals it, a GET or HEAD is answered
\* 304 without a body and without opening a file, whatever If-Modified-Since, Range and
\* Accept-Encoding are; an asset without an ETag answers 304 only to an
\* If-Modified-Since that parses to a date not before its Last-Modified.
C2_ETagMatch ==
    (AssetCallReturned /\ GetOrHead(request.method)) =>
        /\ ETagIsMatched =>
              /\ response.exc = "none"
              /\ response.val.status = 304
              /\ BodyOf(request, response) = 0
              /\ response.opened = None
              /\ handles = <<>>
        /\ (~Truthy(static_file.val.etag) /\ response.exc = "none"
            /\ response.val.status = 304) =>
              /\ request.headers.HTTP_IF_MODIFIED_SINCE /= None
              /\ parsedate(request.headers.HTTP_IF_MODIFIED_SINCE) /= None
              /\ NotBefore(parsedate(request.headers.HTTP_IF_MODIFIED_SINCE),
                           static_file.val.last_modified)

\* a GET whose If-None-Match is the ETag, with an unparsable If-Modified-Since and a
\* Range, has been answered 304
C2_Witness ==
    /\ AssetCallReturned
    /\ request.method = s_GET
    /\ ETagIsMatched
    /\ request.headers.HTTP_IF_MODIFIED_SINCE = s_garbage
    /\ Truthy(request.headers.HTTP_RANGE)
    /\ request.headers.HTTP_ACCEPT_ENCODING /= None
    /\ response.exc = "none"
    /\ response.val.status = 304

\* C3: a GET or HEAD whose If-Modified-Since parses to a date equal to or later than the
\* asset's Last-Modified (to the second) is answered 304; when it parses to an earlier
\* date and no ETag matches, the answer is not a 304.  Both for get_response (also
\* through the view) and for the WSGI serve.
C3_IfModifiedSince ==
    /\ (/\ AssetCallReturned /\ GetOrHead(request.method)
        /\ request.headers.HTTP_IF_MODIFIED_SINCE /= None
        /\ parsedate(request.headers.HTTP_IF_MODIFIED_SINCE) /= None
        /\ static_file.val.last_modified /= None) =>
          IF NotBefore(parsedate(request.headers.HTTP_IF_MODIFIED_SINCE),
                       static_file.val.last_modified)
          THEN response.exc = "none" /\ response.val.status = 304
          ELSE ~ETagIsMatched => ~(response.exc = "none" /\ response.val.status = 304)
    /\ (/\ KnownUrlCallReturned /\ GetOrHead(request.environ.REQUEST_METHOD)
        /\ request.environ.HTTP_IF_MODIFIED_SINCE /= None
        /\ parsedate(request.environ.HTTP_IF_MODIFIED_SINCE) /= None) =>
          IF NotBefore(parsedate(request.environ.HTTP_IF_MODIFIED_SINCE),
                       response.static_file.last_modified)
          THEN response.exc = "none" /\ response.val.status = 304
          ELSE ~(response.exc = "none" /\ response.val.status = 304)

\* a file modified at 1000000000.7 s, asked for with the If-Modified-Since of
\* 1000000000 s and no If-None-Match, has been answered 304
C3_Witness ==
    /\ AssetCallReturned
    /\ static_file.args.path = p_s_a_css
    /\ static_file.args.headers = <<>>
    /\ request.headers.HTTP_IF_NONE_MATCH = None
    /\ request.headers.HTTP_IF_MODIFIED_SINCE
           = formatdate([secs |-> 1000000000, frac |-> 0])
    /\ response.exc = "none"
    /\ response.val.status = 304

\* C4: a 304 carries only headers named Cache-Control, Content-Location, Date, ETag,
\* Expires or Vary, each with the value the asset's merged headers have for it, and
\* none named Content-Type, Content-Length, Content-Encoding or Last-Modified: as
\* returned by get_response, after the view has copied the headers, and from the WSGI
\* serve.
C4_NotModifiedHeaders ==
    /\ (AssetCallReturned /\ response.exc = "none" /\ response.val.status = 304) =>
          /\ \A i \in 1..Len(response.val.headers) :
                /\ response.val.headers[i][1] \in
                       {h_CacheControl, h_ContentLocation, h_Date, h_ETag, h_Expires,
                        h_Vary}
                /\ response.val.headers[i][2] =
                       headers_get(static_file.val.alternatives[1].headers,
                                   response.val.headers[i][1])
          /\ \A i \in 1..Len(response.val.headers) :
                lower(response.val.headers[i][1]) \notin
                    {lower(h_ContentType), lower(h_ContentLength),
                     lower(h_ContentEncoding), lower(h_LastModified)}
    /\ (KnownUrlCallReturned /\ response.exc = "none" /\ response.val.status = 304) =>
          response.val.headers = <<>>

\* the view has answered 304 to an If-Modified-Since alone, with the asset's ETag,
\* Cache-Control and Vary among the headers
C4_Witness ==
    /\ AssetCallReturned
    /\ request.op = "view"
    /\ request.headers.HTTP_IF_NONE_MATCH = None
    /\ response.exc = "none"
    /\ response.val.status = 304
    /\ headers_get(response.val.headers, h_ETag) = s_etag_caller
    /\ headers_contains(response.val.headers, h_CacheControl)
    /\ headers_get(response.val.headers, h_Vary) = s_AcceptEncoding

\* token occurs in s with no \w character next to it on either side
WholeWord(token, s) ==
    \E i \in 0..(Len(s) - Len(token)) :
        /\ SubSeq(s, i + 1, i + Len(token)) = token
        /\ (i = 0 \/ ~IsWordChar(s[i]))
        /\ (i + Len(token) = Len(s) \/ ~IsWordChar(s[i + Len(token) + 1]))

\* the Accept-Encoding of the request, '' when it has none
RequestAcceptEncoding ==
    IF request.headers.HTTP_ACCEPT_ENCODING = None THEN <<>>
    ELSE request.headers.HTTP_ACCEPT_ENCODING

\* the variants the request accepts: the identity and the encoded ones it names
AcceptableVariants ==
    {a \in {static_file.val.alternatives[i] : i \in 1..Len(static_file.val.alternatives)} :
        \/ a.encoding_re.word = None
        \/ WholeWord(a.encoding_re.word, RequestAcceptEncoding)}

\* the size on disk of the smallest of them
SmallestAcceptableSize ==
    CHOOSE n \in {Node(a.path).size : a \in AcceptableVariants} :
        \A a \in AcceptableVariants : n <= Node(a.path).size

\* the request asks for no 304: no If-Modified-Since, no If-None-Match that matches
NotConditional ==
    /\ request.headers.HTTP_IF_MODIFIED_SINCE = None
    /\ ~ETagIsMatched

\* C5: a 200 is the smallest of the variants the request accepts (the identity, and
\* each encoded variant whose token is a whole word of Accept-Encoding): its
\* Content-Length is that variant's size, its Content-Encoding that variant's token, and
\* a GET opens that variant's file; an asset with more than one variant answers with
\* Vary: Accept-Encoding.
C5_EncodingNegotiation ==
    /\ (/\ AssetCallReturned /\ GetOrHead(request.method)
        /\ response.exc = "none" /\ response.val.status = 200) =>
          /\ headers_get(response.val.headers, h_ContentLength)
                 = str(SmallestAcceptableSize)
          /\ \A a \in AcceptableVariants :
                (Node(a.path).size = SmallestAcceptableSize /\ a.encoding_re.word /= None)
                    => headers_get(response.val.headers, h_ContentEncoding)
                           = a.encoding_re.word
          /\ request.method = s_GET =>
                /\ response.opened \in {a.path : a \in AcceptableVariants}
                /\ Node(response.opened).size = SmallestAcceptableSize
    /\ (/\ AssetCallReturned /\ GetOrHead(request.method) /\ response.exc = "none"
        /\ Len(static_file.val.alternatives) > 1) =>
          headers_get(response.val.headers, h_Vary) = s_AcceptEncoding

\* 'Accept-Encoding: br, gzip' on an asset with brotli (4) < gzip (6) < identity (10) has
\* been answered 200 with Content-Encoding: br and Content-Length: 4
C5_Witness ==
    /\ AssetCallReturned
    /\ request.method = s_GET
    /\ request.headers.HTTP_ACCEPT_ENCODING = <<"b", "r", ",", " ", "g", "z", "i", "p">>
    /\ Len(static_file.val.alternatives) = 3
    /\ response.exc = "none"
    /\ response.val.status = 200
    /\ headers_get(response.val.headers, h_ContentEncoding) = s_br
    /\ headers_get(response.val.headers, h_ContentLength) = <<"4">>
    /\ response.opened = p_s_a_css_br

\* C6 as the specification states it: without Accept-Encoding, a 200 has no
\* Content-Encoding header and the Content-Length of the identity file, whatever the
\* identity file is called.
C6_Original ==
    (/\ AssetCallReturned /\ GetOrHead(request.method)
     /\ request.headers.HTTP_ACCEPT_ENCODING = None
     /\ response.exc = "none" /\ response.val.status = 200) =>
        /\ ~headers_contains(response.val.headers, h_ContentEncoding)
        /\ headers_get(response.val.headers, h_ContentLength)
               = str(Node(static_file.args.path).size)

\* C6, amended: without Accept-Encoding, a 200 has the Content-Length of the identity
\* file, and its Content-Encoding is the one set_content_type derived from the
\* identity file's name: none for a name without an encoding suffix or when the caller
\* supplied the Content-Type, and the suffix's encoding otherwise.  A request that is
\* not conditional and has no Range gets a 200 whatever its Accept-Encoding: the
\* negotiation always finds a variant.
C6_NoAcceptEncoding ==
    /\ (/\ AssetCallReturned /\ GetOrHead(request.method)
        /\ request.headers.HTTP_ACCEPT_ENCODING = None
        /\ response.exc = "none" /\ response.val.status = 200) =>
          /\ headers_get(response.val.headers, h_ContentLength)
                 = str(Node(static_file.args.path).size)
          /\ headers_get(response.val.headers, h_ContentEncoding)
                 = IF headers_contains(static_file.args.headers, h_ContentType)
                   THEN None
                   ELSE guess_type(static_file.args.path)[2]
    /\ (/\ AssetCallReturned /\ GetOrHead(request.method)
        /\ NotConditional /\ ~Truthy(request.headers.HTTP_RANGE)) =>
          response.exc = "none" /\ response.val.status = 200

\* the identity file /s/t.gz, asked for without Accept-Encoding, has been answered 200
\* with Content-Encoding: gzip and its own size as the Content-Length
C6_Witness ==
    /\ AssetCallReturned
    /\ static_file.args.path = p_s_t_gz
    /\ static_file.args.headers = <<>>
    /\ request.headers.HTTP_ACCEPT_ENCODING = None
    /\ response.exc = "none"
    /\ response.val.status = 200
    /\ headers_get(response.val.headers, h_ContentEncoding) = s_gzip
    /\ headers_get(response.val.headers, h_ContentLength) = <<"8">>

s_bytes_sp == <<"b", "y", "t", "e", "s", " ">>

\* a returned call of get_byte_range
ByteRangeReturned == pc = "returned" /\ request.op = "get_byte_range"

\* C7 as the specification states it: a GET with Range: bytes=0-4 on a chosen variant
\* of more than 5 bytes is answered 206 with Content-Range: bytes 0-4/size and the one
\* Content-Length 5; and get_byte_range gives (a, b) for bytes=a-b with a < b <= size-1.
C7_Original ==
    /\ (/\ AssetCallReturned /\ request.method = s_GET /\ NotConditional
        /\ request.headers.HTTP_RANGE = <<"b", "y", "t", "e", "s", "=", "0", "-", "4">>
        /\ SmallestAcceptableSize > 5) =>
          /\ response.exc = "none"
          /\ response.val.status = 206
          /\ headers_get(response.val.headers, h_ContentRange)
                 = s_bytes_sp \o <<"0", "-", "4", "/">> \o str(SmallestAcceptableSize)
          /\ headers_get(response.val.headers, h_ContentLength) = <<"5">>
          /\ Cardinality({i \in 1..Len(response.val.headers) :
                             lower(response.val.headers[i][1]) = lower(h_ContentLength)})
                 = 1
    /\ ByteRangeReturned =>
          \A a \in 0..MaxSize, b \in 0..MaxSize :
              (/\ a < b /\ b <= request.size - 1
               /\ request.range_header = s_bytes_eq \o str(a) \o <<"-">> \o str(b)) =>
                  response = Ok([start |-> a, end |-> b])

\* C8 as the specification states it: a GET with Range: bytes=-3 on a chosen variant
\* of at least 2 bytes is answered 206 with Content-Range: bytes start-end/size for
\* start = max(size - 3, 0) and end = size - 1, and Content-Length end - start + 1.
C8_Original ==
    (/\ AssetCallReturned /\ request.method = s_GET /\ NotConditional
     /\ request.headers.HTTP_RANGE = <<"b", "y", "t", "e", "s", "=", "-", "3">>
     /\ SmallestAcceptableSize >= 2) =>
        /\ response.exc = "none"
        /\ response.val.status = 206
        /\ headers_get(response.val.headers, h_ContentRange)
               = s_bytes_sp \o str(Max(SmallestAcceptableSize - 3, 0)) \o <<"-">>
                 \o str(SmallestAcceptableSize - 1) \o <<"/">>
                 \o str(SmallestAcceptableSize)
        /\ headers_get(response.val.headers, h_ContentLength)
               = str(SmallestAcceptableSize - Max(SmallestAcceptableSize - 3, 0))

\* C9 as the specification states it: a Range that does not parse (bytes=abc) leaves
\* get_response with the outcome it has for the same request without a Range, and
\* get_byte_range rejects the single-byte range bytes=0-0.
C9_Original ==
    /\ (/\ AssetCallReturned /\ request.op = "get_response" /\ GetOrHead(request.method)
        /\ request.headers.HTTP_RANGE = <<"b", "y", "t", "e", "s", "=", "a", "b", "c">>) =>
          response = get_response(static_file.val, request.method,
                                  [request.headers EXCEPT !.HTTP_RANGE = None], 1)
    /\ (/\ ByteRangeReturned
        /\ request.range_header = <<"b", "y", "t", "e", "s", "=", "0", "-", "0">>) =>
          response.exc = "ValueError"

\* the directory of a mount holds the path
UnderRoot(path, root) == startswith(path, root \o <<"/">>)

\* C10 as the specification states it: in on-demand mode a URL that is empty, ends in
\* a slash or differs from its normalised form finds nothing and touches no file, and
\* every path that a call stats or opens lies under the root of a registered mount.
C10_Original ==
    (pc = "returned" /\ request.op = "call" /\ autorefresh) =>
        /\ \A i \in 1..Len(response.stats) :
              \E k \in 1..Len(directories) : UnderRoot(response.stats[i], directories[k][1])
        /\ response.opened /= None =>
              \E k \in 1..Len(directories) : UnderRoot(response.opened, directories[k][1])
        /\ (\/ request.environ.PATH_INFO = <<>>
            \/ endswith(request.environ.PATH_INFO, <<"/">>)
            \/ normpath(request.environ.PATH_INFO) /= request.environ.PATH_INFO) =>
              /\ ~response.found
              /\ response.stats = <<>>
              /\ response.opened = None


\* the file a mount <<root, prefix>> has for a URL: root/rest, rest being the URL
\* without the mount's prefix
MountPath(m, url) == m[1] \o <<"/">> \o Drop(url, Len(m[2]))

\* the mount provides the URL: the URL is under its prefix and the rest names a regular
\* file below its root
Provides(m, url) ==
    /\ startswith(url, m[2])
    /\ Len(url) > Len(m[2])
    /\ normpath(MountPath(m, url)) = MountPath(m, url)
    /\ HasNode(MountPath(m, url))
    /\ Node(MountPath(m, url)).kind = "reg"

Providers(url) == {i \in 1..Len(mounts) : Provides(mounts[i], url)}

\* the mount registered last among those that provide the URL
LatestProvider(url) == CHOOSE i \in Providers(url) : \A j \in Providers(url) : j <= i

Reverse(s) == [i \in 1..Len(s) |-> s[Len(s) + 1 - i]]

\* C11: a URL that registered mounts provide resolves to the file of the mount
\* registered last among them, in either mode, and is never passed on to the wrapped
\* application.  In on-demand mode the directories are the mounts, latest first, and
\* the map stays empty; in eager mode no directory is kept.
C11_LaterMountWins ==
    /\ IF autorefresh THEN directories = Reverse(mounts) /\ DOMAIN files = {}
       ELSE directories = <<>>
    /\ (pc = "returned" /\ request.op = "call"
        /\ Providers(request.environ.PATH_INFO) /= {}) =>
          /\ ~response.passed
          /\ response.found =>
               response.static_file.path =
                   MountPath(mounts[LatestProvider(request.environ.PATH_INFO)],
                             request.environ.PATH_INFO)

\* eager mode, /r then /q mounted under the same prefix: the URL /x, which both provide,
\* has been answered from /q/x
C11_Witness ==
    /\ pc = "returned" /\ request.op = "call" /\ ~autorefresh
    /\ mounts = << <<p_r, <<"/">> >>, <<p_q, <<"/">> >> >>
    /\ request.environ.PATH_INFO = <<"/", "x">>
    /\ Providers(request.environ.PATH_INFO) = {1, 2}
    /\ response.found
    /\ response.static_file.path = <<"/", "q", "/", "x">>
    /\ response.exc = "none" /\ response.val.status = 200


\* no mount resolves the URL: for each mount, the URL is not under its prefix, or the
\* path it gives is missing or a directory
NoMountResolves(url) ==
    \A i \in 1..Len(directories) :
        \/ ~startswith(url, directories[i][2])
        \/ stat_regular_file(
               path_join(directories[i][1], Drop(url, Len(directories[i][2])))).exc
             = "MissingFileError"

\* C12: a call whose lookup yields no StaticFile invokes the wrapped application exactly
\* once, with the request as it came, and returns what the application returns, for
\* every method; a call whose lookup yields a StaticFile never invokes it.  The lookup
\* yields none in eager mode when the URL is no key of the map, and in on-demand mode
\* when no mount resolves the URL.
C12_PassThrough ==
    (pc = "returned" /\ request.op = "call") =>
        /\ response.found => response.calls = <<>> /\ ~response.passed
        /\ (~response.found /\ response.exc = "none") =>
              /\ response.passed
              /\ response.calls = <<request.environ>>
              /\ response.val = application(request.environ)
              /\ response.opened = None
        /\ (~autorefresh /\ ~files_get(files, request.environ.PATH_INFO).found) =>
              response.passed
        /\ (autorefresh /\ NoMountResolves(request.environ.PATH_INFO)) =>
              response.passed

\* on-demand mode with /r mounted: a POST of /xx, which is a directory below /r, went to
\* the application once, as it came
C12_Witness ==
    /\ pc = "returned" /\ request.op = "call" /\ autorefresh
    /\ mounts = << <<p_r, <<"/">> >> >>
    /\ request.environ.PATH_INFO = <<"/", "x", "x">>
    /\ request.environ.REQUEST_METHOD = s_POST
    /\ request.environ.HTTP_IF_MODIFIED_SINCE /= None
    /\ response.stats /= <<>>
    /\ ~response.found
    /\ response.calls = <<request.environ>>
    /\ response.val = application(request.environ)


\* the request is over: the call raised, or the server is through with the body
RequestEnded == pc = "finished" \/ (pc = "returned" /\ response.exc /= "none")

\* C13 as the specification states it: no request ends with a file handle still open,
\* on any exit path.
C13_Original ==
    RequestEnded => \A i \in 1..Len(handles) : handles[i].closed


s_max_age_60 == s_public_max_age \o <<"6", "0">>

s_max_age_forever == s_public_max_age \o <<"3", "1", "5", "3", "6", "0", "0", "0", "0">>

\* C14: the Cache-Control of an asset is public, max-age=FOREVER exactly when the
\* immutability oracle says true, and carries the configured max_age otherwise.  The
\* default oracle says false for every file, so every asset a WhiteNoise builds has
\* max-age=60.  The Django oracle says true only for a URL under the static prefix whose
\* name differs from its name without hash, and for which the storage's URL of the name
\* without hash ends in the URL.
C14_CacheLifetime ==
    /\ KnownUrlCallReturned =>
          /\ ~is_immutable_file(response.static_file.path, request.environ.PATH_INFO)
          /\ headers_get(response.static_file.headers, h_CacheControl) = s_max_age_60
          /\ Truthy(response.static_file.gzip_path) =>
                headers_get(response.static_file.gzip_headers, h_CacheControl)
                    = s_max_age_60
    /\ (pc = "returned" /\ request.op = "add_cache_headers") =>
          /\ headers_get(response.val, h_CacheControl)
                = IF response.immutable THEN s_max_age_forever
                  ELSE s_public_max_age \o str(request.max_age)
          /\ response.immutable =>
                LET prefix == ensure_leading_trailing_slash(request.static_prefix)
                    name == Drop(request.url, Len(prefix))
                IN  /\ startswith(request.url, prefix)
                    /\ get_name_without_hash(name) /= name
                    /\ \E e \in request.storage.manifest :
                          /\ e[1] = get_name_without_hash(name)
                          /\ endswith(request.storage.base_url \o e[2], request.url)

\* a Django middleware with static prefix /s/ and a storage behind a CDN host has taken
\* /s/a.h.css for immutable and given it max-age=315360000
C14_Witness ==
    /\ pc = "returned" /\ request.op = "add_cache_headers"
    /\ request.url = s_static_url \o s_a_h_css
    /\ request.storage.base_url /= s_static_url
    /\ request.max_age = 0
    /\ response.immutable
    /\ headers_get(response.val, h_CacheControl) = s_max_age_forever


\* the file name has an extension of the list
HasListedExtension(filename, extensions) ==
    \E i \in 1..Len(extensions) : splitext(filename)[2] = <<".">> \o extensions[i]

\* C15: a sibling is written only for a non-empty file and only when 100 times its size
\* is at most 95 times the file's size; the siblings are .br and .gz, each at most
\* once; a file whose extension is in the exclude list gets none; and when brotli is
\* on and not effective, no .gz is written either.
C15_CompressEffective ==
    (pc = "returned" /\ request.op = "compress") =>
        /\ \A i \in 1..Len(response.written) :
              /\ request.size > 0
              /\ 100 * response.written[i].size <= 95 * request.size
              /\ \/ /\ response.written[i].suffix = <<".", "b", "r">>
                    /\ response.written[i].size = request.brotli_size
                    /\ request.use_brotli /\ request.brotli_installed
                 \/ /\ response.written[i].suffix = s_dot_gz
                    /\ response.written[i].size = request.gzip_size
                    /\ request.use_gzip
              /\ \A j \in 1..Len(response.written) :
                    response.written[j].suffix = response.written[i].suffix => i = j
        /\ HasListedExtension(request.filename, request.extensions) =>
              response.written = <<>>
        /\ (/\ request.use_brotli /\ request.brotli_installed
            /\ 100 * request.brotli_size > 95 * request.size) =>
              response.written = <<>>

\* a 100-byte a.css whose brotli form has 95 bytes and whose gzip form has 96: the .br
\* was written and the .gz was not
C15_Witness ==
    /\ pc = "returned" /\ request.op = "compress"
    /\ request.filename = s_a_css
    /\ request.size = 100 /\ request.brotli_size = 95 /\ request.gzip_size = 96
    /\ request.use_gzip
    /\ response.written = << [suffix |-> <<".", "b", "r">>, size |-> 95] >>


\* what get_response gives for the GET with the headers of the request at hand
TwinGet == get_response(static_file.val, s_GET, request.headers, 1)

\* C16 as the specification states it: whatever the request headers, a HEAD yields a
\* response with the status and the header list of the GET with the same headers, opens
\* no file and carries no stream, and the GET differs only in the file it opened.
C16_Original ==
    (pc = "returned" /\ request.op = "get_response" /\ request.method = s_HEAD) =>
        /\ response.exc = "none"
        /\ TwinGet.exc = "none"
        /\ response.val.status = TwinGet.val.status
        /\ response.val.headers = TwinGet.val.headers
        /\ response.val.file = 0
        /\ response.opened = None
        /\ handles = <<>>
        /\ TwinGet.val.status /= 304 => TwinGet.opened /= None


\* C17: get_response decides in a fixed order: the method first, then the validators,
\* then negotiation and open, then Range.  A method other than GET and HEAD gets 405
\* whatever the validators say; a GET or HEAD whose If-None-Match is the ETag gets 304
\* whatever the Range header, never 206; a 405 or 304 has no body and no file was
\* opened for it; a GET that is not conditional has opened its file before the Range
\* header is looked at, whatever comes of that; and a 200 is given only to a GET or HEAD
\* without Range whose validators did not match.
C17_DecisionOrder ==
    AssetCallReturned =>
        /\ ~GetOrHead(request.method) =>
              /\ response.exc = "none" /\ response.val.status = 405
        /\ (GetOrHead(request.method) /\ ETagIsMatched) =>
              /\ response.exc = "none" /\ response.val.status = 304
        /\ (response.exc = "none" /\ response.val.status \in {405, 304}) =>
              /\ handles = <<>>
              /\ response.opened = None
              /\ BodyOf(request, response) = 0
        /\ (response.exc = "none" => response.val.status /= 206)
              \/ (GetOrHead(request.method) /\ ~ETagIsMatched)
        /\ (request.method = s_GET /\ NotConditional) =>
              /\ Len(handles) = 1
              /\ handles[1].pos = 0 /\ ~handles[1].closed
        /\ (response.exc = "none" /\ response.val.status = 200) =>
              /\ GetOrHead(request.method)
              /\ ~ETagIsMatched
              /\ ~Truthy(request.headers.HTTP_RANGE)
              /\ (handles /= <<>>) <=> (request.method = s_GET)

\* a GET whose If-None-Match is the asset's ETag and which asks for a range has been
\* answered 304, without a file
C17_Witness ==
    /\ AssetCallReturned
    /\ request.method = s_GET
    /\ ETagIsMatched
    /\ request.headers.HTTP_RANGE = <<"b", "y", "t", "e", "s", "=", "0", "-", "4">>
    /\ request.headers.HTTP_IF_MODIFIED_SINCE = s_garbage
    /\ response.exc = "none"
    /\ response.val.status = 304
    /\ handles = <<>>


\* C18 as the specification states it: a GET or HEAD whose If-Modified-Since does not
\* parse to a date, with no ETag matched (and, to leave the Range step aside, no Range
\* header), raises no error and is answered 200, by get_response, by the Django view
\* and by the WSGI serve of a known URL.
C18_Original ==
    /\ (/\ AssetCallReturned /\ GetOrHead(request.method)
        /\ request.headers.HTTP_IF_MODIFIED_SINCE = s_garbage
        /\ ~ETagIsMatched
        /\ ~Truthy(request.headers.HTTP_RANGE)) =>
          response.exc = "none" /\ response.val.status = 200
    /\ (/\ KnownUrlCallReturned /\ GetOrHead(request.environ.REQUEST_METHOD)
        /\ request.environ.HTTP_IF_MODIFIED_SINCE = s_garbage) =>
          response.exc = "none" /\ response.val.status = 200

\* the outcome the classification of the errors gives a stat wrapper for `path`
StatClassified(path, r) ==
    LET st == os_stat(path)
    IN  /\ (st.exc = "OSError" /\ st.errno \in {"ENOENT", "ENAMETOOLONG"})
            => r.exc = "MissingFileError"
        /\ (st.exc = "none" /\ st.val.kind = "dir") => IsMissingFileError(r.exc)
        /\ (st.exc = "none" /\ st.val.kind \notin {"dir", "reg"})
            => r.exc = "NotARegularFileError"
        /\ (st.exc = "OSError" /\ st.errno \notin {"ENOENT", "ENAMETOOLONG"})
            => (r.exc = "OSError" /\ r.errno = st.errno)
        /\ r.exc = "none" => (st.exc = "none" /\ st.val.kind = "reg" /\ r.val = st.val)

\* C19: both stat wrappers, FileEntry.stat_regular_file and base.stat_regular_file,
\* raise MissingFileError for ENOENT and ENAMETOOLONG, a MissingFileError (IsDirectory)
\* for a directory, NotARegularFileError for any other node that is no regular file, let
\* every other OSError through, and return the stat result only for a regular file.
C19_Original ==
    (pc = "returned" /\ request.op \in {"FileEntry.stat_regular_file", "stat_regular_file"})
        => StatClassified(request.path, response)

\* the same classification, of FileEntry.stat_regular_file alone
FileEntryStatClassified ==
    (pc = "returned" /\ request.op = "FileEntry.stat_regular_file")
        => StatClassified(request.path, response)

\* find_file looks the URL up at all: it is not empty, names no directory and is
\* normalised
LookupValid(url) == url /= <<>> /\ url[Len(url)] /= "/" /\ normpath(url) = url

\* the paths the mounts whose prefix the URL starts with give it, latest mount first
RECURSIVE CandidatePaths(_, _)
CandidatePaths(dirs, url) ==
    IF dirs = <<>> THEN <<>>
    ELSE (IF startswith(url, Head(dirs)[2])
          THEN << path_join(Head(dirs)[1], Drop(url, Len(Head(dirs)[2]))) >>
          ELSE <<>>) \o CandidatePaths(Tail(dirs), url)

\* the path is missing (os.stat fails with one of missing_errnos) or is a directory
Skippable(p, missing_errnos) ==
    LET st == os_stat(p)
    IN  \/ st.exc = "OSError" /\ st.errno \in missing_errnos
        \/ st.exc = "none" /\ st.val.kind = "dir"

\* the exception the stat of a path that is neither skippable nor a regular file gives
HardError(p) == IF os_stat(p).exc = "none" THEN "NotARegularFileError" ELSE "OSError"

\* the outcome r of a lookup in on-demand mode is that of the first candidate path that
\* is not skippable: its file when it is a regular file, its error otherwise, and no
\* StaticFile and no error when every candidate is skippable
LookupOutcome(url, r, missing_errnos) ==
    LET c == CandidatePaths(directories, url)
        hit == {i \in 1..Len(c) : ~Skippable(c[i], missing_errnos)}
    IN  IF hit = {} THEN r.exc = "none" /\ ~r.found /\ r.passed
        ELSE LET p == c[CHOOSE i \in hit : \A j \in hit : i <= j]
             IN  IF os_stat(p).exc = "none" /\ os_stat(p).val.kind = "reg"
                 THEN r.found /\ r.static_file.path = p /\ ~r.passed
                 ELSE r.exc = HardError(p) /\ ~r.found /\ ~r.passed

\* the exception FileEntry(path) raises, "none" for a regular file
EntryError(path, missing_errnos) ==
    LET st == os_stat(path)
    IN  IF st.exc = "OSError"
        THEN (IF st.errno \in missing_errnos THEN "MissingFileError" ELSE "OSError")
        ELSE IF st.val.kind = "dir" THEN "IsDirectoryError"
        ELSE IF st.val.kind /= "reg" THEN "NotARegularFileError"
        ELSE "none"

\* the construction sf of a StaticFile raises the error of the identity file, or else
\* the first error of an alternative that is no missing-file error, or else has the
\* identity file and exactly the alternatives that are regular files
BuildOutcome(sf, missing_errnos) ==
    LET enc == sf.args.encodings
        hard == {i \in 1..Len(enc) :
                    EntryError(enc[i][2], missing_errnos) \notin
                        {"none", "MissingFileError", "IsDirectoryError"}}
    IN  IF EntryError(sf.args.path, missing_errnos) /= "none"
        THEN sf.exc = EntryError(sf.args.path, missing_errnos)
        ELSE IF hard /= {}
        THEN sf.exc = EntryError(enc[CHOOSE i \in hard : \A j \in hard : i <= j][2],
                                 missing_errnos)
        ELSE /\ sf.exc = "none"
             /\ {sf.val.alternatives[i].path : i \in 1..Len(sf.val.alternatives)} =
                    {sf.args.path} \cup
                    {enc[i][2] : i \in {j \in 1..Len(enc) :
                                           EntryError(enc[j][2], missing_errnos) = "none"}}

\* StaticFile(...) has been called: the object of the state is no WhiteNoise and no
\* compressor
StaticFileConstructed == static_file.exc \notin {"unbuilt", "compressor"}

\* 'not found' and 'name too long', the errors of a missing file
MissingErrnos == {"ENOENT", "ENAMETOOLONG"}

\* C20: in on-demand mode a mount under whose prefix the URL falls but whose path is
\* missing or a directory is skipped for the next, earlier, one; when none resolves the
\* lookup gives no StaticFile and raises nothing; a path that is some other node, or whose
\* stat fails otherwise, makes the lookup raise.  A StaticFile is built without the
\* alternatives that are missing, and its construction raises the error of the identity
\* file and any other error of an alternative.
C20_Original ==
    /\ (pc = "returned" /\ request.op = "call" /\ autorefresh
        /\ LookupValid(request.environ.PATH_INFO)) =>
           LookupOutcome(request.environ.PATH_INFO, response, MissingErrnos)
    /\ StaticFileConstructed => BuildOutcome(static_file, MissingErrnos)

\* the same, with 'name too long' counted among the other errors in the lookup, as
\* base.stat_regular_file has it
LookupAsCoded ==
    /\ (pc = "returned" /\ request.op = "call" /\ autorefresh
        /\ LookupValid(request.environ.PATH_INFO)) =>
           LookupOutcome(request.environ.PATH_INFO, response, {"ENOENT"})
    /\ StaticFileConstructed => BuildOutcome(static_file, MissingErrnos)

\* the range of a Range header that parses, as parse_byte_range gives it
ParsedRange == parse_byte_range(request.range_header)

\* C21: a byte range get_byte_range returns for a variant of `size` bytes lies inside
\* it, 0 <= start <= end <= size - 1, so that the Content-Length end - start + 1 of the
\* 206 built from it never exceeds size; an explicit end inside the file is kept and an
\* end past the end of the file becomes size - 1.
C21_Original ==
    (ByteRangeReturned /\ response.exc = "none") =>
        /\ 0 <= response.val.start
        /\ response.val.start <= response.val.end
        /\ response.val.end <= request.size - 1
        /\ response.val.end - response.val.start + 1 <= request.size
        /\ (ParsedRange.exc = "none" /\ ~ParsedRange.val.open_end) =>
              response.val.end = IF ParsedRange.val.end <= request.size - 1
                                 THEN ParsedRange.val.end
                                 ELSE request.size - 1

\* a step of the handling of a request: a call of the application, of get_response or
\* of the Django view begins, its body is streamed or it returns, or a thread of the
\* server takes a step of its call
RequestStep ==
    \/ pc = "idle" /\ pc' = "returned" /\ request'.op \in {"call", "get_response", "view"}
    \/ pc = "returned" /\ request.op \in {"call", "get_response", "view"}
    \/ threads' /= threads

\* what a request gets when it is handled alone on a registry
HandledAlone(environ, met) ==
    wsgi_call(autorefresh, met.files, met.directories, environ, 1)

\* thread t ends its call with the outcome its request has when handled alone on met
ThreadReturns(t, met) ==
    (threads[t].pc /= "returned" /\ threads'[t].pc = "returned") =>
        \E alone \in {HandledAlone(threads[t].environ, met)} :
            /\ threads'[t].response.exc = alone.exc
            /\ threads'[t].response.val = alone.val

\* C22: handling a request, whatever its method, URL and headers, in either mode and
\* whatever the response, leaves the map of the files, the directories, the mounts and
\* the fields of every StaticFile as they were; and a request that a thread handles
\* while another thread handles its own gets the response, raised or returned, that it
\* gets when it is handled alone on the registry its lookup met.
C22_RequestsLeaveRegistry ==
    /\ [][RequestStep =>
             UNCHANGED <<autorefresh, files, directories, mounts, static_file>>]_vars
    /\ [][\A t \in Threads :
             ThreadReturns(t, IF threads[t].pc = "found" THEN threads[t].met
                              ELSE [files |-> files, directories |-> directories])]_vars

\* eager mode: thread 1 has looked /x up and holds the shared StaticFile while thread 2
\* has been answered 200 for the same URL and its file is open
C22_Witness ==
    /\ ~autorefresh /\ DOMAIN files /= {}
    /\ threads[1].pc = "found"
    /\ files_get(files, <<"/", "x">>).found
    /\ threads[1].static_file = files_get(files, <<"/", "x">>).val
    /\ threads[1].environ.PATH_INFO = <<"/", "x">>
    /\ threads[2].pc = "returned"
    /\ threads[2].environ.PATH_INFO = <<"/", "x">>
    /\ threads[2].environ.REQUEST_METHOD = s_GET
    /\ threads[2].response.exc = "none"
    /\ Len(handles) = 1 /\ handles[1].thread = 2 /\ ~handles[1].closed

=============================================================================
